---- MODULE Spec2Model ----
(***************************************************************************)
(* A model of the binary codecs, the disc reader and the asset scanner of  *)
(* the psxutils crate.  Byte buffers are sequences of 0..255; an offset o  *)
(* of the Rust code is index o + 1 here.  usize is taken to be 64 bits     *)
(* wide and the host little-endian (the bytemuck casts read native order). *)
(***************************************************************************)
EXTENDS Integers, Sequences, FiniteSets, TLC

VARIABLES
    \* ---- Tim::parse / Tim::validate / Tim::to_rgba8 on one buffer
    timPc, timData, timBase, timParsed, timValidated, timRgba, timLegacyRgba,
    timPrefixLen, timPrefixResult,
    \* ---- AssetScanner
    scanPc, scanData, scanBase, min_size, offset, assets, scanExtract,
    \* ---- Vag::decode_to_pcm
    vagPc, vagData, vagPos, vagChecked, hist1, hist2, output,
    \* ---- CdromPosition
    posPc, posInput, position, sectorNumber,
    \* ---- CdRom
    cdPc, mmap, root_dir_lba, root_dir_size, cdOpened, dirCalls, dataRead,
    dirList,
    \* ---- DatEntry
    entryPc, start_sector, end_sector, byteOffset, byteSize, byteRange,
    sectorCount,
    \* ---- LzssDecoder
    lzssPc, lzssInput, cursor, window, window_pos, lzssFlags, flag_count,
    lzssOutput, total_written, streamsDone,
    \* ---- Tmd::parse
    tmdPc, tmdData, tmdParsed, primWalk,
    \* ---- XaSubHeader::parse
    xaPc, xaData, xaParsed,
    \* ---- DatArchive
    datPc, datData, datOffset, datEntries, table_size, datExtract,
    \* ---- chunked scan (scan_prot_dat)
    chunkPc, fileData, chunkBase, file_offset, all_assets,
    \* ---- rgb555_to_rgba
    colorPc, colorIn, colorOut,
    \* ---- Vag::find_loop_points
    loopPc, loopData, loop_start, loop_end

varsTim == <<timPc, timData, timBase, timParsed, timValidated, timRgba,
             timLegacyRgba, timPrefixLen, timPrefixResult>>
varsScan == <<scanPc, scanData, scanBase, min_size, offset, assets,
              scanExtract>>
varsVag == <<vagPc, vagData, vagPos, vagChecked, hist1, hist2, output>>
varsPos == <<posPc, posInput, position, sectorNumber>>
varsCd == <<cdPc, mmap, root_dir_lba, root_dir_size, cdOpened, dirCalls,
            dataRead, dirList>>
varsEntry == <<entryPc, start_sector, end_sector, byteOffset, byteSize,
               byteRange, sectorCount>>
varsLzss == <<lzssPc, lzssInput, cursor, window, window_pos, lzssFlags,
              flag_count, lzssOutput, total_written, streamsDone>>
varsTmd == <<tmdPc, tmdData, tmdParsed, primWalk>>
varsXa == <<xaPc, xaData, xaParsed>>
varsDat == <<datPc, datData, datOffset, datEntries, table_size, datExtract>>
varsChunk == <<chunkPc, fileData, chunkBase, file_offset, all_assets>>
varsColor == <<colorPc, colorIn, colorOut>>
varsLoop == <<loopPc, loopData, loop_start, loop_end>>
vars == <<varsTim, varsScan, varsVag, varsPos, varsCd, varsEntry, varsLzss
    , varsTmd, varsXa, varsDat, varsChunk, varsColor, varsLoop>>

\* what the actions of one component leave alone
restTim == <<varsScan, varsVag, varsPos, varsCd, varsEntry, varsLzss, varsTmd
    , varsXa, varsDat, varsChunk, varsColor, varsLoop>>
restScan == <<varsTim, varsVag, varsPos, varsCd, varsEntry, varsLzss, varsTmd
    , varsXa, varsDat, varsChunk, varsColor, varsLoop>>
restVag == <<varsTim, varsScan, varsPos, varsCd, varsEntry, varsLzss, varsTmd
    , varsXa, varsDat, varsChunk, varsColor, varsLoop>>
restPos == <<varsTim, varsScan, varsVag, varsCd, varsEntry, varsLzss, varsTmd
    , varsXa, varsDat, varsChunk, varsColor, varsLoop>>
restCd == <<varsTim, varsScan, varsVag, varsPos, varsEntry, varsLzss, varsTmd
    , varsXa, varsDat, varsChunk, varsColor, varsLoop>>
restEntry == <<varsTim, varsScan, varsVag, varsPos, varsCd, varsLzss, varsTmd
    , varsXa, varsDat, varsChunk, varsColor, varsLoop>>
restLzss == <<varsTim, varsScan, varsVag, varsPos, varsCd, varsEntry, varsTmd
    , varsXa, varsDat, varsChunk, varsColor, varsLoop>>
restTmd == <<varsTim, varsScan, varsVag, varsPos, varsCd, varsEntry, varsLzss
    , varsXa, varsDat, varsChunk, varsColor, varsLoop>>
restXa == <<varsTim, varsScan, varsVag, varsPos, varsCd, varsEntry, varsLzss
    , varsTmd, varsDat, varsChunk, varsColor, varsLoop>>
restDat == <<varsTim, varsScan, varsVag, varsPos, varsCd, varsEntry, varsLzss
    , varsTmd, varsXa, varsChunk, varsColor, varsLoop>>
restChunk == <<varsTim, varsScan, varsVag, varsPos, varsCd, varsEntry
    , varsLzss, varsTmd, varsXa, varsDat, varsColor, varsLoop>>
restColor == <<varsTim, varsScan, varsVag, varsPos, varsCd, varsEntry
    , varsLzss, varsTmd, varsXa, varsDat, varsChunk, varsLoop>>
restLoop == <<varsTim, varsScan, varsVag, varsPos, varsCd, varsEntry, varsLzss
    , varsTmd, varsXa, varsDat, varsChunk, varsColor>>

---------------------------------------------------------------------------
(* Bytes and little-endian integers                                        *)

Min(a, b) == IF a < b THEN a ELSE b
Max(a, b) == IF a > b THEN a ELSE b

\* u32::from_le_bytes / u16::from_le_bytes at byte offset off of data
U16At(data, off) == data[off + 1] + 256 * data[off + 2]
\* A u32 at or above 2^31 does not fit the checker's integers: it is read as
\* 2^31 - 1.  Every use of such a field either compares it for equality
\* with a small constant or rejects it against a limit far below 2^31; the
\* extents in the disc images tried are small.
U32At(data, off) ==
    IF data[off + 4] >= 128 THEN 2147483647
    ELSE data[off + 1] + 256 * data[off + 2] + 65536 * data[off + 3]
            + 16777216 * data[off + 4]

\* the little-endian layout of a u16 / u32 field
Le16(v) == <<v % 256, (v \div 256) % 256>>
Le32(v) == <<v % 256, (v \div 256) % 256, (v \div 65536) % 256,
             (v \div 16777216) % 256>>

\* usize::saturating_sub
SatSub(a, b) == IF a > b THEN a - b ELSE 0

\* &data[lo..hi]: a slice, or the panic of an out-of-range index
Panic == <<-1>>
Slice(data, lo, hi) ==
    IF lo > hi \/ hi > Len(data) THEN Panic ELSE SubSeq(data, lo + 1, hi)

\* bytemuck::try_from_bytes accepts a slice only if its address is a
\* multiple of the target's alignment; base is the buffer's address mod 4
Aligned4(base, off) == (base + off) % 4 = 0

---------------------------------------------------------------------------
(* TIM texture codec: types                                                *)

TIM_MAGIC == 16
MAX_TIM_WORD_WIDTH == 16384
MAX_TIM_HEIGHT == 8192
MAX_CLUT_SIZE == 512
MAX_REASONABLE_SIZE == 10485760
CLUT_MAX_BYTE_SIZE == (MAX_TIM_WORD_WIDTH * 2 * MAX_TIM_HEIGHT) + 12
MAX_POSSIBLE_TIM_DATA_SIZE == (MAX_TIM_WORD_WIDTH * 2 * MAX_TIM_HEIGHT) + 12

PixelModeFromU32(value) ==
    CASE value % 8 = 0 -> "Clut4Bit"
      [] value % 8 = 1 -> "Clut8Bit"
      [] value % 8 = 2 -> "Direct16Bit"
      [] value % 8 = 3 -> "Direct24Bit"
      [] value % 8 = 4 -> "Mixed"
      [] OTHER -> "Invalid"

\* TimHeader::pixel_mode, has_clut, validate_reserved_bits; flags is the
\* four bytes of the flags word, low byte first
HeaderPixelMode(flags) == PixelModeFromU32(flags[1] % 8)
HeaderHasClut(flags) == (flags[1] \div 8) % 2 = 1
\* the reserved-bit check looking at the low byte of the flags word only
ValidateReservedBitsLowByte(flags) == flags[1] \div 16 = 0

ValidateReservedBits(flags) ==
    flags[1] \div 16 = 0 /\ flags[2] = 0 /\ flags[3] = 0 /\ flags[4] = 0

NoClut == [present |-> FALSE, vram_pos |-> <<0, 0>>, dimensions |-> <<0, 0>>,
           data |-> <<>>]
NoTim == [pixel_mode |-> "Invalid", has_clut |-> FALSE, clut |-> NoClut,
          pixels |-> [vram_pos |-> <<0, 0>>, dimensions |-> <<0, 0>>,
                      data |-> <<>>]]

TimErr(kind, msg) == [kind |-> kind, msg |-> msg, tim |-> NoTim]
TimOk(tim) == [kind |-> "Ok", msg |-> "", tim |-> tim]

\* chunks_exact(2) of a byte run, each chunk read as a little-endian u16
U16Chunks(bytes) == [i \in 1..(Len(bytes) \div 2) |-> U16At(bytes, 2 * (i - 1))]

---------------------------------------------------------------------------
(* Tim::parse                                                              *)

\* TimParsePixels without the check of the pixel data against the buffer
TimParsePixelsUnchecked(data, base, off, pixel_mode, has_clut, clut) ==
    IF Len(data) < off + 12
    THEN TimErr("InvalidFormat", "TIM file truncated (pixel header)")
    ELSE LET ph == Slice(data, off, off + 12) IN
    IF ph = Panic THEN TimErr("Panic", "slice index out of range")
    ELSE IF ~Aligned4(base, off)
    THEN TimErr("ParseError", "Failed to parse pixel header")
    ELSE LET pixel_data_size == SatSub(U32At(ph, 0), 12) IN
    IF pixel_data_size > MAX_REASONABLE_SIZE
    THEN TimErr("InvalidFormat", "TIM pixel data size too large")
    ELSE LET pixel_data == Slice(data, off + 12, off + 12 + pixel_data_size) IN
    IF pixel_data = Panic THEN TimErr("Panic", "slice index out of range")
    ELSE TimOk([pixel_mode |-> pixel_mode,
                has_clut |-> has_clut,
                clut |-> clut,
                pixels |-> [vram_pos |-> <<U16At(ph, 4), U16At(ph, 6)>>,
                            dimensions |-> <<U16At(ph, 8), U16At(ph, 10)>>,
                            data |-> pixel_data]])

\* the pixel block starting at offset, after the header and optional CLUT
TimParsePixels(data, base, off, pixel_mode, has_clut, clut) ==
    IF Len(data) < off + 12
    THEN TimErr("InvalidFormat", "TIM file truncated (pixel header)")
    ELSE LET ph == Slice(data, off, off + 12) IN
    IF ph = Panic THEN TimErr("Panic", "slice index out of range")
    ELSE IF ~Aligned4(base, off)
    THEN TimErr("ParseError", "Failed to parse pixel header")
    ELSE LET pixel_data_size == SatSub(U32At(ph, 0), 12) IN
    IF pixel_data_size > MAX_REASONABLE_SIZE
    THEN TimErr("InvalidFormat", "TIM pixel data size too large")
    ELSE IF Len(data) < off + 12 + pixel_data_size
    THEN TimErr("InvalidFormat", "TIM file truncated (pixel data)")
    ELSE LET pixel_data == Slice(data, off + 12, off + 12 + pixel_data_size) IN
    IF pixel_data = Panic THEN TimErr("Panic", "slice index out of range")
    ELSE TimOk([pixel_mode |-> pixel_mode,
                has_clut |-> has_clut,
                clut |-> clut,
                pixels |-> [vram_pos |-> <<U16At(ph, 4), U16At(ph, 6)>>,
                            dimensions |-> <<U16At(ph, 8), U16At(ph, 10)>>,
                            data |-> pixel_data]])

\* the CLUT block at offset 8, then the pixel block behind it
TimParseClut(data, base, pixel_mode) ==
    IF Len(data) < 8 + 12
    THEN TimErr("InvalidFormat", "TIM file truncated (CLUT header)")
    ELSE LET ch == Slice(data, 8, 8 + 12) IN
    IF ch = Panic THEN TimErr("Panic", "slice index out of range")
    ELSE IF ~Aligned4(base, 8)
    THEN TimErr("ParseError", "Failed to parse CLUT header")
    ELSE LET clut_data_size == SatSub(U32At(ch, 0), 12) IN
    IF clut_data_size > MAX_CLUT_SIZE
    THEN TimErr("InvalidFormat", "TIM CLUT data size too large")
    ELSE IF Len(data) < 20 + clut_data_size
    THEN TimErr("InvalidFormat", "TIM file truncated (CLUT data)")
    ELSE LET raw == Slice(data, 20, 20 + clut_data_size) IN
    IF raw = Panic THEN TimErr("Panic", "slice index out of range")
    ELSE TimParsePixels(data, base, 20 + clut_data_size, pixel_mode, TRUE,
            [present |-> TRUE,
             vram_pos |-> <<U16At(ch, 4), U16At(ch, 6)>>,
             dimensions |-> <<U16At(ch, 8), U16At(ch, 10)>>,
             data |-> U16Chunks(raw)])

TimParse(data, base) ==
    IF Len(data) < 8 THEN TimErr("InvalidFormat", "TIM file too small")
    ELSE LET hd == Slice(data, 0, 8) IN
    IF hd = Panic THEN TimErr("Panic", "slice index out of range")
    ELSE IF ~Aligned4(base, 0)
    THEN TimErr("ParseError", "Failed to parse TIM header")
    ELSE IF U32At(hd, 0) # TIM_MAGIC
    THEN TimErr("InvalidFormat", "Invalid TIM magic")
    ELSE LET flags == SubSeq(hd, 5, 8)
             pixel_mode == HeaderPixelMode(flags) IN
    IF pixel_mode = "Invalid"
    THEN TimErr("InvalidFormat", "Invalid TIM pixel mode")
    ELSE IF HeaderHasClut(flags)
    THEN TimParseClut(data, base, pixel_mode)
    ELSE TimParsePixels(data, base, 8, pixel_mode, FALSE, NoClut)

---------------------------------------------------------------------------
(* Tim::validate: the allocation-free check the scanner runs               *)

ValidateErr(kind, msg) ==
    [kind |-> kind, msg |-> msg, width |-> 0, height |-> 0, size |-> 0]

\* u16 multiplication as the release profile computes it (wrapping); the
\* debug profile panics on overflow, which needs a word width of 16384
U16Mul(a, b) == (a * b) % 65536

ValidateWidth(pixel_mode, word_width) ==
    CASE pixel_mode = "Clut4Bit" -> U16Mul(word_width, 4)
      [] pixel_mode = "Clut8Bit" -> U16Mul(word_width, 2)
      [] pixel_mode = "Direct16Bit" -> word_width
      [] pixel_mode = "Direct24Bit" -> U16Mul(word_width, 2) \div 3
      [] OTHER -> word_width

\* the pixel block accepted without asking whether the buffer holds its data
TimValidatePixelsAnyLength(data, base, off, pixel_mode, total_size) ==
    IF Len(data) < off + 12
    THEN ValidateErr("InvalidFormat", "TIM file truncated (pixel header)")
    ELSE LET ph == Slice(data, off, off + 12) IN
    IF ph = Panic THEN ValidateErr("Panic", "slice index out of range")
    ELSE IF ~Aligned4(base, off)
    THEN ValidateErr("ParseError", "Failed to parse pixel header")
    ELSE LET size == U32At(ph, 0)
             width == U16At(ph, 8)
             height == U16At(ph, 10)
             pixel_data_size == SatSub(size, 12)
             expected_pixel_size == (width * 2 * height) + 12 IN
    IF width = 0 \/ width > MAX_TIM_WORD_WIDTH
    THEN ValidateErr("InvalidFormat", "TIM pixel width out of range")
    ELSE IF height = 0 \/ height > MAX_TIM_HEIGHT
    THEN ValidateErr("InvalidFormat", "TIM pixel height out of range")
    ELSE IF pixel_data_size > MAX_POSSIBLE_TIM_DATA_SIZE
    THEN ValidateErr("InvalidFormat", "TIM pixel data size too large")
    ELSE IF size < expected_pixel_size \/ size > expected_pixel_size + 2
    THEN ValidateErr("InvalidFormat", "TIM pixel size inconsistent")
    ELSE [kind |-> "Ok", msg |-> "",
          width |-> ValidateWidth(pixel_mode, width),
          height |-> height,
          size |-> total_size + 12 + pixel_data_size]

\* the pixel block at off; total_size is what the header and CLUT took
TimValidatePixels(data, base, off, pixel_mode, total_size) ==
    IF Len(data) < off + 12
    THEN ValidateErr("InvalidFormat", "TIM file truncated (pixel header)")
    ELSE LET ph == Slice(data, off, off + 12) IN
    IF ph = Panic THEN ValidateErr("Panic", "slice index out of range")
    ELSE IF ~Aligned4(base, off)
    THEN ValidateErr("ParseError", "Failed to parse pixel header")
    ELSE LET size == U32At(ph, 0)
             width == U16At(ph, 8)
             height == U16At(ph, 10)
             pixel_data_size == SatSub(size, 12)
             expected_pixel_size == (width * 2 * height) + 12 IN
    IF width = 0 \/ width > MAX_TIM_WORD_WIDTH
    THEN ValidateErr("InvalidFormat", "TIM pixel width out of range")
    ELSE IF height = 0 \/ height > MAX_TIM_HEIGHT
    THEN ValidateErr("InvalidFormat", "TIM pixel height out of range")
    ELSE IF pixel_data_size > MAX_POSSIBLE_TIM_DATA_SIZE
    THEN ValidateErr("InvalidFormat", "TIM pixel data size too large")
    ELSE IF Len(data) < off + 12 + pixel_data_size
    THEN ValidateErr("InvalidFormat", "TIM file truncated (pixel data)")
    ELSE IF size < expected_pixel_size \/ size > expected_pixel_size + 2
    THEN ValidateErr("InvalidFormat", "TIM pixel size inconsistent")
    ELSE [kind |-> "Ok", msg |-> "",
          width |-> ValidateWidth(pixel_mode, width),
          height |-> height,
          size |-> total_size + 12 + pixel_data_size]

\* TimValidateClut leaving the 12-byte CLUT header out of the total
TimValidateClutNoHeader(data, base, pixel_mode) ==
    IF Len(data) < 8 + 12
    THEN ValidateErr("InvalidFormat", "TIM file truncated (CLUT header)")
    ELSE LET ch == Slice(data, 8, 8 + 12) IN
    IF ch = Panic THEN ValidateErr("Panic", "slice index out of range")
    ELSE IF ~Aligned4(base, 8)
    THEN ValidateErr("ParseError", "Failed to parse CLUT header")
    ELSE LET size == U32At(ch, 0)
             clut_data_size == SatSub(size, 12) IN
    IF clut_data_size > CLUT_MAX_BYTE_SIZE \/ size % 2 # 0
    THEN ValidateErr("InvalidFormat", "TIM CLUT data size invalid")
    ELSE IF Len(data) < 20 + clut_data_size
    THEN ValidateErr("InvalidFormat", "TIM file truncated (CLUT data)")
    ELSE TimValidatePixels(data, base, 20 + clut_data_size, pixel_mode,
                           8 + clut_data_size)

TimValidateClut(data, base, pixel_mode) ==
    IF Len(data) < 8 + 12
    THEN ValidateErr("InvalidFormat", "TIM file truncated (CLUT header)")
    ELSE LET ch == Slice(data, 8, 8 + 12) IN
    IF ch = Panic THEN ValidateErr("Panic", "slice index out of range")
    ELSE IF ~Aligned4(base, 8)
    THEN ValidateErr("ParseError", "Failed to parse CLUT header")
    ELSE LET size == U32At(ch, 0)
             clut_data_size == SatSub(size, 12) IN
    IF clut_data_size > CLUT_MAX_BYTE_SIZE \/ size % 2 # 0
    THEN ValidateErr("InvalidFormat", "TIM CLUT data size invalid")
    ELSE IF U16At(ch, 8) = 0 \/ U16At(ch, 8) > MAX_TIM_WORD_WIDTH
    THEN ValidateErr("InvalidFormat", "TIM CLUT width out of range")
    ELSE IF U16At(ch, 10) = 0 \/ U16At(ch, 10) > MAX_TIM_HEIGHT
    THEN ValidateErr("InvalidFormat", "TIM CLUT height out of range")
    ELSE IF Len(data) < 20 + clut_data_size
    THEN ValidateErr("InvalidFormat", "TIM file truncated (CLUT data)")
    ELSE TimValidatePixels(data, base, 20 + clut_data_size, pixel_mode,
                           8 + 12 + clut_data_size)

TimValidate(data, base) ==
    IF Len(data) < 8 THEN ValidateErr("InvalidFormat", "TIM file too small")
    ELSE LET hd == Slice(data, 0, 8) IN
    IF hd = Panic THEN ValidateErr("Panic", "slice index out of range")
    ELSE IF ~Aligned4(base, 0)
    THEN ValidateErr("ParseError", "Failed to parse TIM header")
    ELSE IF U32At(hd, 0) # TIM_MAGIC
    THEN ValidateErr("InvalidFormat", "Invalid TIM magic")
    ELSE LET flags == SubSeq(hd, 5, 8)
             pixel_mode == HeaderPixelMode(flags) IN
    IF ~ValidateReservedBits(flags)
    THEN ValidateErr("InvalidFormat", "Invalid TIM flags")
    ELSE IF pixel_mode = "Invalid"
    THEN ValidateErr("InvalidFormat", "Invalid TIM pixel mode")
    ELSE IF HeaderHasClut(flags)
    THEN TimValidateClut(data, base, pixel_mode)
    ELSE TimValidatePixels(data, base, 8, pixel_mode, 8)

---------------------------------------------------------------------------
(* Tim::width, Tim::height, Tim::data_size                                 *)

TimWidth(tim) ==
    CASE tim.pixel_mode = "Clut4Bit" -> U16Mul(tim.pixels.dimensions[1], 4)
      [] tim.pixel_mode = "Clut8Bit" -> U16Mul(tim.pixels.dimensions[1], 2)
      [] OTHER -> tim.pixels.dimensions[1]

TimHeight(tim) == tim.pixels.dimensions[2]

TimDataSize(tim) ==
    8 + (IF tim.clut.present THEN 12 + Len(tim.clut.data) * 2 ELSE 0)
      + 12 + Len(tim.pixels.data)

---------------------------------------------------------------------------
(* Colour conversion                                                       *)

\* Rgb555ToRgba with the blended alpha for every colour whose STP bit is set
Rgb555ToRgbaStpBlend(color) ==
    LET r == ((color % 32) * 8) % 256
        g == (((color \div 32) % 32) * 8) % 256
        b == (((color \div 1024) % 32) * 8) % 256
        stp == (color \div 32768) % 2 = 1
        a == IF stp THEN 254
             ELSE IF r = 0 /\ g = 0 /\ b = 0 THEN 0 ELSE 255
    IN <<r, g, b, a>>

\* rgb555_to_rgba that never blends: alpha 255 for every colour but the key
Rgb555ToRgbaOpaque(color) ==
    LET r == ((color % 32) * 8) % 256
        g == (((color \div 32) % 32) * 8) % 256
        b == (((color \div 1024) % 32) * 8) % 256
        stp == (color \div 32768) % 2 = 1
        a == IF r = 0 /\ g = 0 /\ b = 0 /\ ~stp THEN 0 ELSE 255
    IN <<r, g, b, a>>

\* rgb555_to_rgba: 0BBBBBGGGGGRRRRR plus the STP bit 0x8000
Rgb555ToRgba(color) ==
    LET r == ((color % 32) * 8) % 256
        g == (((color \div 32) % 32) * 8) % 256
        b == (((color \div 1024) % 32) * 8) % 256
        stp == (color \div 32768) % 2 = 1
        a == IF r = 0 /\ g = 0 /\ b = 0
             THEN (IF ~stp THEN 0 ELSE 255)
             ELSE (IF ~stp THEN 255 ELSE 254)
    IN <<r, g, b, a>>

\* the per-pixel conversion of the older single-file codec (tim.rs)
LegacyRgb555ToRgba(color) ==
    LET r == ((color % 32) * 8) % 256
        g == (((color \div 32) % 32) * 8) % 256
        b == (((color \div 1024) % 32) * 8) % 256
        a == IF (color \div 32768) % 2 = 0 THEN 0 ELSE 255
    IN <<r, g, b, a>>

\* the RGBA bytes of a sequence of 16-bit colours, four per colour
ColorsToRgba(colors) ==
    [i \in 1..(4 * Len(colors)) |->
        Rgb555ToRgba(colors[((i - 1) \div 4) + 1])[((i - 1) % 4) + 1]]

RgbaOk(bytes) == [kind |-> "Ok", msg |-> "", rgba |-> bytes]
RgbaErr(msg) == [kind |-> "InvalidFormat", msg |-> msg, rgba |-> <<>>]

Convert16BitToRgba8(tim) == RgbaOk(ColorsToRgba(U16Chunks(tim.pixels.data)))

LegacyConvert16BitToRgba8(tim) ==
    LET colors == U16Chunks(tim.pixels.data) IN
    RgbaOk([i \in 1..(4 * Len(colors)) |->
        LegacyRgb555ToRgba(colors[((i - 1) \div 4) + 1])[((i - 1) % 4) + 1]])

Convert24BitToRgba8(tim) ==
    LET d == tim.pixels.data
        n == Len(d) \div 3 IN
    RgbaOk([i \in 1..(4 * n) |->
        IF (i - 1) % 4 = 3 THEN 255
        ELSE d[3 * ((i - 1) \div 4) + ((i - 1) % 4) + 1]])

\* the palette colours of the indices that lie inside the palette; an index
\* at or past clut.data.len() contributes no pixel
LookupIndices(idxs, clut) ==
    LET kept == SelectSeq(idxs, LAMBDA x : x < Len(clut.data)) IN
    [i \in 1..Len(kept) |-> clut.data[kept[i] + 1]]

Convert4BitToRgba8(tim) ==
    IF ~tim.clut.present THEN RgbaErr("4-bit TIM requires CLUT")
    ELSE LET d == tim.pixels.data
             idxs == [i \in 1..(2 * Len(d)) |->
                        IF i % 2 = 1 THEN d[(i + 1) \div 2] % 16
                        ELSE (d[i \div 2] \div 16) % 16] IN
    RgbaOk(ColorsToRgba(LookupIndices(idxs, tim.clut)))

Convert8BitToRgba8(tim) ==
    IF ~tim.clut.present THEN RgbaErr("8-bit TIM requires CLUT")
    ELSE RgbaOk(ColorsToRgba(LookupIndices(tim.pixels.data, tim.clut)))

ToRgba8(tim) ==
    CASE tim.pixel_mode = "Direct16Bit" -> Convert16BitToRgba8(tim)
      [] tim.pixel_mode = "Direct24Bit" -> Convert24BitToRgba8(tim)
      [] tim.pixel_mode = "Clut4Bit" -> Convert4BitToRgba8(tim)
      [] tim.pixel_mode = "Clut8Bit" -> Convert8BitToRgba8(tim)
      [] OTHER -> RgbaErr("Mixed mode TIM conversion not yet supported")

---------------------------------------------------------------------------
(* AssetScanner                                                            *)

DEFAULT_MIN_SIZE == 64

\* insert asset a into the list sorted, behind the entries of equal offset
RECURSIVE InsertByOffset(_, _)
InsertByOffset(sorted, a) ==
    IF sorted = <<>> THEN <<a>>
    ELSE IF a.offset < Head(sorted).offset THEN <<a>> \o sorted
    ELSE <<Head(sorted)>> \o InsertByOffset(Tail(sorted), a)

\* assets.sort_by_key(|a| a.offset), a stable sort
RECURSIVE SortByOffset(_)
SortByOffset(list) ==
    IF list = <<>> THEN <<>>
    ELSE InsertByOffset(SortByOffset(SubSeq(list, 1, Len(list) - 1)),
                        list[Len(list)])

\* ScanTimIteration staying on a validated texture smaller than min
ScanTimIterationStall(data, base, min, off, found) ==
    LET magic_bytes == Slice(data, off, off + 4)
        hit == magic_bytes # Panic /\ U32At(magic_bytes, 0) = TIM_MAGIC
        v == IF hit
             THEN TimValidate(SubSeq(data, off + 1, Len(data)), (base + off) % 4)
             ELSE ValidateErr("None", "")
    IN IF v.kind = "Panic"
       THEN [offset |-> off, assets |-> found, panicked |-> TRUE]
       ELSE IF v.kind = "Ok" /\ v.size >= min
       THEN [offset |-> off + v.size,
             assets |-> Append(found,
                 [offset |-> off, size |-> v.size,
                  asset_type |-> [kind |-> "Tim", width |-> v.width,
                                  height |-> v.height]]),
             panicked |-> FALSE]
       ELSE IF v.kind = "Ok"
       THEN [offset |-> off, assets |-> found, panicked |-> FALSE]
       ELSE [offset |-> off + 1, assets |-> found, panicked |-> FALSE]

\* ScanTimIteration recording every validated texture, whatever min_size
ScanTimIterationNoFilter(data, base, min, off, found) ==
    LET magic_bytes == Slice(data, off, off + 4)
        hit == magic_bytes # Panic /\ U32At(magic_bytes, 0) = TIM_MAGIC
        v == IF hit
             THEN TimValidate(SubSeq(data, off + 1, Len(data)), (base + off) % 4)
             ELSE ValidateErr("None", "")
    IN IF v.kind = "Panic"
       THEN [offset |-> off, assets |-> found, panicked |-> TRUE]
       ELSE IF v.kind = "Ok"
       THEN [offset |-> off + v.size,
             assets |-> Append(found,
                 [offset |-> off, size |-> v.size,
                  asset_type |-> [kind |-> "Tim", width |-> v.width,
                                  height |-> v.height]]),
             panicked |-> FALSE]
       ELSE [offset |-> off + 1, assets |-> found, panicked |-> FALSE]

\* ScanTimIteration crawling on by one byte after a hit as well
ScanTimIterationNoJump(data, base, min, off, found) ==
    LET magic_bytes == Slice(data, off, off + 4)
        hit == magic_bytes # Panic /\ U32At(magic_bytes, 0) = TIM_MAGIC
        v == IF hit
             THEN TimValidate(SubSeq(data, off + 1, Len(data)), (base + off) % 4)
             ELSE ValidateErr("None", "")
    IN IF v.kind = "Panic"
       THEN [offset |-> off, assets |-> found, panicked |-> TRUE]
       ELSE IF v.kind = "Ok" /\ v.size >= min
       THEN [offset |-> off + 1,
             assets |-> Append(found,
                 [offset |-> off, size |-> v.size,
                  asset_type |-> [kind |-> "Tim", width |-> v.width,
                                  height |-> v.height]]),
             panicked |-> FALSE]
       ELSE [offset |-> off + 1, assets |-> found, panicked |-> FALSE]

\* one iteration of the loop of scan_tim at cursor off: the cursor and the
\* list it leaves behind.  The validator sees &data[off..], whose address
\* is the region's plus off.
ScanTimIteration(data, base, min, off, found) ==
    LET magic_bytes == Slice(data, off, off + 4)
        hit == magic_bytes # Panic /\ U32At(magic_bytes, 0) = TIM_MAGIC
        v == IF hit
             THEN TimValidate(SubSeq(data, off + 1, Len(data)), (base + off) % 4)
             ELSE ValidateErr("None", "")
    IN IF v.kind = "Panic"
       THEN [offset |-> off, assets |-> found, panicked |-> TRUE]
       ELSE IF v.kind = "Ok" /\ v.size >= min
       THEN [offset |-> off + v.size,
             assets |-> Append(found,
                 [offset |-> off, size |-> v.size,
                  asset_type |-> [kind |-> "Tim", width |-> v.width,
                                  height |-> v.height]]),
             panicked |-> FALSE]
       ELSE [offset |-> off + 1, assets |-> found, panicked |-> FALSE]

\* AssetScanner::extract: Some(bytes) or None
Extract(data, asset) ==
    IF asset.offset + asset.size <= Len(data)
    THEN [some |-> TRUE,
          bytes |-> SubSeq(data, asset.offset + 1, asset.offset + asset.size)]
    ELSE [some |-> FALSE, bytes |-> <<>>]

---------------------------------------------------------------------------
(* VAG audio samples: Vag::decode_to_pcm                                   *)

\* the table with its first row lost
FILTERSFromOne == <<<<60, 0>>, <<115, -52>>, <<98, -55>>, <<122, -60>>, <<122, -60>>>>

FILTERS == <<<<0, 0>>, <<60, 0>>, <<115, -52>>, <<98, -55>>, <<122, -60>>>>

\* Rust's integer division, which rounds towards zero (b > 0)
TruncDiv(a, b) == IF a >= 0 THEN a \div b ELSE -((-a) \div b)

\* ((nibble as i8) << 4) >> 4: the nibble as a signed 4-bit number
SignExtendNibble(n) == IF n >= 8 THEN n - 16 ELSE n

Clamp(x, lo, hi) == IF x < lo THEN lo ELSE IF x > hi THEN hi ELSE x

\* (sample as i32) << (12 - shift_factor) for shift_factor <= 12
ShiftSample(sample, shift_factor) == sample * 2 ^ (12 - shift_factor)

\* The same with shift_factor in 13..15 and overflow checks off: 12 - shift
\* wraps in u32, the shift count is taken modulo 32 (31, 30, 29) and the
\* bits shifted out are lost; the result is an i32.
ShiftSampleWrapped(sample, shift_factor) ==
    LET keep == 2 ^ (shift_factor - 12)
        low == ((sample + (keep \div 2)) % keep) - (keep \div 2)
    IN (low * 2 ^ (43 - shift_factor)) * 2

\* i32 addition of a small term pred, wrapping below i32::MIN
WrappingAdd(a, pred) ==
    IF pred < 0 /\ a < (-2147483647 - 1) - pred
    THEN (((a + 2147483647) + 1) + pred) + 2147483647 + 1
    ELSE a + pred

\* one nibble: the sample emitted with history (h1, h2)
DecodeSample(nibble, shift_factor, filter, h1, h2) ==
    LET sample == SignExtendNibble(nibble)
        pred == TruncDiv(h1 * filter[1] + h2 * filter[2] + 32, 64)
        decoded == IF shift_factor <= 12
                   THEN ShiftSample(sample, shift_factor) + pred
                   ELSE WrappingAdd(ShiftSampleWrapped(sample, shift_factor), pred)
    IN Clamp(decoded, -32768, 32767)

\* nibble i (0..27) of a block: low nibble of data byte i / 2 first
BlockNibble(block, i) ==
    IF i % 2 = 0 THEN block[3 + (i \div 2)] % 16
    ELSE (block[3 + (i \div 2)] \div 16) % 16

\* the 28 samples of one block from nibble i on, rolling the history
RECURSIVE DecodeSamples(_, _, _, _, _, _, _)
DecodeSamples(block, i, shift_factor, filter, h1, h2, out) ==
    IF i = 28 THEN [out |-> out, hist1 |-> h1, hist2 |-> h2]
    ELSE LET d == DecodeSample(BlockNibble(block, i), shift_factor, filter, h1, h2)
         IN DecodeSamples(block, i + 1, shift_factor, filter, d, h1, Append(out, d))

\* one iteration of the loop over self.data.chunks(16); checked is whether
\* the build has overflow checks on (12 - shift_factor panics on underflow)
DecodeBlock(block, h1, h2, out, checked) ==
    IF Len(block) < 16
    THEN [pc |-> "done", out |-> out, hist1 |-> h1, hist2 |-> h2]
    ELSE LET predict_nr == block[1] % 16
             shift_factor == block[1] \div 16 IN
    IF predict_nr >= Len(FILTERS)
    THEN [pc |-> "decoding", out |-> out, hist1 |-> h1, hist2 |-> h2]
    ELSE IF shift_factor > 12 /\ checked
    THEN [pc |-> "panicked", out |-> out, hist1 |-> h1, hist2 |-> h2]
    ELSE LET r == DecodeSamples(block, 0, shift_factor, FILTERS[predict_nr + 1],
                                h1, h2, out)
         IN [pc |-> "decoding", out |-> r.out, hist1 |-> r.hist1,
             hist2 |-> r.hist2]

---------------------------------------------------------------------------
(* Disc addresses: CdromPosition                                           *)

CdromPosition(m, s, f) == [minute |-> m, second |-> s, sector |-> f]

\* the second taken without wrapping at the minute
FromSectorNumberNoWrap(n) ==
    CdromPosition((n \div (60 * 75)) % 256, (n \div 75) % 256, (n % 75) % 256)

ToSectorNumber(p) == (p.minute * 60 * 75) + (p.second * 75) + p.sector

\* each field is cast to u8
FromSectorNumber(n) ==
    CdromPosition((n \div (60 * 75)) % 256, ((n \div 75) % 60) % 256,
                  (n % 75) % 256)

---------------------------------------------------------------------------
(* Disc images: CdRom                                                      *)

SECTOR_SIZE == 2352
DATA_SIZE == 2048
PVD_SECTOR == 16
VD_PRIMARY == 1
FLAG_DIRECTORY == 2

\* "CD001"
CD001 == <<67, 68, 48, 48, 49>>

\* The mapped image is kept as its length and, per sector, the leading bytes
\* of the data window; every other byte of the image is 0.
\* Byte i (from 0) of the mapping:
MmapAt(m, i) ==
    LET lba == i \div SECTOR_SIZE
        o == (i % SECTOR_SIZE) - 24
    IN IF lba \in DOMAIN m.sectors /\ o >= 0 /\ o < Len(m.sectors[lba])
       THEN m.sectors[lba][o + 1]
       ELSE 0

CdErr(kind, msg) ==
    [kind |-> kind, msg |-> msg, extent |-> <<0, 0>>, entries |-> <<>>]

\* read_sector: the slice of the mapping it returns, as start and length
ReadSector(self, lba) ==
    LET off == lba * SECTOR_SIZE
        data_offset == off + 24
        data_end == data_offset + DATA_SIZE
    IN IF off + SECTOR_SIZE > self.mmap.len
       THEN [kind |-> "ParseError", start |-> 0, len |-> 0]
       ELSE IF data_end > self.mmap.len
       THEN [kind |-> "Ok", start |-> off,
             len |-> Min(SECTOR_SIZE, self.mmap.len - off)]
       ELSE [kind |-> "Ok", start |-> data_offset, len |-> DATA_SIZE]

\* read_data: Ok when every sector of the extent can be read
ReadData(self, start_lba, size) ==
    LET sector_count == (size + DATA_SIZE - 1) \div DATA_SIZE
    IN IF \A i \in 0..(sector_count - 1) :
              ReadSector(self, start_lba + i).kind = "Ok"
       THEN [kind |-> "Ok", len |-> size]
       ELSE [kind |-> "ParseError", len |-> 0]

\* the loop of read_data that copies the whole window of every sector
RECURSIVE ReadDataLoopUntrimmed(_, _, _, _, _)
ReadDataLoopUntrimmed(self, start_lba, size, i, data) ==
    IF i >= (size + DATA_SIZE - 1) \div DATA_SIZE
    THEN [kind |-> "Ok", data |-> data]
    ELSE LET sec == ReadSector(self, start_lba + i) IN
    IF sec.kind # "Ok" THEN [kind |-> "ParseError", data |-> <<>>]
    ELSE ReadDataLoopUntrimmed(self, start_lba, size, i + 1,
            data \o [k \in 1..DATA_SIZE |-> MmapAt(self.mmap, sec.start + k - 1)])

\* the loop of read_data from sector i on: the Vec it returns, or the error
RECURSIVE ReadDataLoop(_, _, _, _, _)
ReadDataLoop(self, start_lba, size, i, data) ==
    IF i >= (size + DATA_SIZE - 1) \div DATA_SIZE
    THEN [kind |-> "Ok", data |-> data]
    ELSE LET sec == ReadSector(self, start_lba + i) IN
    IF sec.kind # "Ok" THEN [kind |-> "ParseError", data |-> <<>>]
    ELSE LET to_copy == Min(DATA_SIZE, size - Len(data)) IN
    IF to_copy > sec.len THEN [kind |-> "Panic", data |-> <<>>]
    ELSE ReadDataLoop(self, start_lba, size, i + 1,
            data \o [k \in 1..to_copy |-> MmapAt(self.mmap, sec.start + k - 1)])

\* byte k (from 0) of the Vec read_data returned for an extent at start_lba
DataAt(self, start_lba, k) ==
    MmapAt(self.mmap,
           ReadSector(self, start_lba + (k \div DATA_SIZE)).start + (k % DATA_SIZE))

\* String::from_utf8_lossy on bytes that are not UTF-8 sequences: ASCII is
\* kept, any other byte becomes U+FFFD
FromUtf8Lossy(bytes) ==
    [i \in 1..Len(bytes) |-> IF bytes[i] < 128 THEN bytes[i] ELSE 65533]

\* s.split(sep).next(): the part before the first sep
RECURSIVE SplitFirst(_, _)
SplitFirst(str, sep) ==
    IF str = <<>> \/ Head(str) = sep THEN <<>>
    ELSE <<Head(str)>> \o SplitFirst(Tail(str), sep)

NoEntry == [name |-> <<>>, size |-> 0, lba |-> 0, is_dir |-> FALSE]

\* parse_directory_record: Some(entry) or None
ParseDirectoryRecord(record) ==
    IF Len(record) < 33 THEN [some |-> FALSE, entry |-> NoEntry]
    ELSE LET lba == U32At(record, 2)
             size == U32At(record, 10)
             flags == record[26]
             is_dir == ((flags \div FLAG_DIRECTORY) % 2) # 0
             name_len == record[33] IN
    IF Len(record) < 33 + name_len THEN [some |-> FALSE, entry |-> NoEntry]
    ELSE LET name_bytes == SubSeq(record, 34, 33 + name_len)
             name == SplitFirst(FromUtf8Lossy(name_bytes), 59) IN
    IF name = <<0>> \/ name = <<1>> \/ name = <<>>
    THEN [some |-> FALSE, entry |-> NoEntry]
    ELSE [some |-> TRUE,
          entry |-> [name |-> name, size |-> size, lba |-> lba,
                     is_dir |-> is_dir]]

\* one pass of the loop of parse_directory_entries that takes a record
\* length of 0 as the end of the directory
ParseDirectoryIterationStopAtZero(self, dir_lba, len, off, entries) ==
    IF off >= len THEN [offset |-> off, entries |-> entries, done |-> TRUE]
    ELSE LET record_len == DataAt(self, dir_lba, off) IN
    IF record_len = 0 \/ off + record_len > len
    THEN [offset |-> off, entries |-> entries, done |-> TRUE]
    ELSE LET record == [j \in 1..record_len |-> DataAt(self, dir_lba, off + j - 1)]
             r == ParseDirectoryRecord(record)
         IN [offset |-> off + record_len,
             entries |-> IF r.some THEN Append(entries, r.entry) ELSE entries,
             done |-> FALSE]

\* one pass of the loop of parse_directory_entries over dir_data of length
\* len, the cursor at off: the cursor and entries after it, and whether the
\* loop has ended
ParseDirectoryIteration(self, dir_lba, len, off, entries) ==
    IF off >= len THEN [offset |-> off, entries |-> entries, done |-> TRUE]
    ELSE LET record_len == DataAt(self, dir_lba, off) IN
    IF record_len = 0
    THEN LET next == ((off \div DATA_SIZE) + 1) * DATA_SIZE
         IN [offset |-> next, entries |-> entries, done |-> next >= len]
    ELSE IF off + record_len > len
    THEN [offset |-> off, entries |-> entries, done |-> TRUE]
    ELSE LET record == [j \in 1..record_len |-> DataAt(self, dir_lba, off + j - 1)]
             r == ParseDirectoryRecord(record)
         IN [offset |-> off + record_len,
             entries |-> IF r.some THEN Append(entries, r.entry) ELSE entries,
             done |-> FALSE]

\* the loop of parse_directory_entries over dir_data of length len
RECURSIVE ParseDirectoryLoop(_, _, _, _, _)
ParseDirectoryLoop(self, dir_lba, len, off, entries) ==
    LET st == ParseDirectoryIteration(self, dir_lba, len, off, entries)
    IN IF st.done THEN st.entries
       ELSE ParseDirectoryLoop(self, dir_lba, len, st.offset, st.entries)

ParseDirectoryEntries(self, dir_lba, dir_size) ==
    IF ReadData(self, dir_lba, dir_size).kind # "Ok"
    THEN CdErr("ParseError", "Sector out of bounds")
    ELSE [kind |-> "Ok", msg |-> "", extent |-> <<dir_lba, dir_size>>,
          entries |-> ParseDirectoryLoop(self, dir_lba, dir_size, 0, <<>>)]

ToAsciiLower(c) == IF c >= 65 /\ c <= 90 THEN c + 32 ELSE c

EqIgnoreAsciiCase(a, b) ==
    /\ Len(a) = Len(b)
    /\ \A i \in 1..Len(a) : ToAsciiLower(a[i]) = ToAsciiLower(b[i])

\* path.split('/').filter(|s| !s.is_empty()), cur being the part under way
RECURSIVE SplitParts(_, _, _)
SplitParts(path, cur, parts) ==
    IF path = <<>> THEN (IF cur = <<>> THEN parts ELSE Append(parts, cur))
    ELSE IF Head(path) = 47
    THEN SplitParts(Tail(path), <<>>,
                    IF cur = <<>> THEN parts ELSE Append(parts, cur))
    ELSE SplitParts(Tail(path), Append(cur, Head(path)), parts)

RECURSIVE TrimStartMatches(_, _)
TrimStartMatches(str, c) ==
    IF str # <<>> /\ Head(str) = c THEN TrimStartMatches(Tail(str), c) ELSE str

RECURSIVE TrimEndMatches(_, _)
TrimEndMatches(str, c) ==
    IF str # <<>> /\ str[Len(str)] = c
    THEN TrimEndMatches(SubSeq(str, 1, Len(str) - 1), c)
    ELSE str

\* entries.iter().find(..): index of the first directory named part, or 0
FindEntry(entries, part) ==
    LET hits == {i \in 1..Len(entries) :
                    entries[i].is_dir /\ EqIgnoreAsciiCase(entries[i].name, part)}
    IN IF hits = {} THEN 0 ELSE CHOOSE i \in hits : \A j \in hits : i <= j

\* the loop of find_directory from part i on
RECURSIVE FindDirectoryLoop(_, _, _, _, _)
FindDirectoryLoop(self, parts, i, current_lba, current_size) ==
    IF i > Len(parts)
    THEN [kind |-> "Ok", msg |-> "", extent |-> <<current_lba, current_size>>,
          entries |-> <<>>]
    ELSE LET listing == ParseDirectoryEntries(self, current_lba, current_size) IN
    IF listing.kind # "Ok" THEN listing
    ELSE LET k == FindEntry(listing.entries, parts[i]) IN
    IF k = 0 THEN CdErr("FileNotFound", "Directory not found in path")
    ELSE FindDirectoryLoop(self, parts, i + 1, listing.entries[k].lba,
                           listing.entries[k].size)

FindDirectory(self, path) ==
    FindDirectoryLoop(self, SplitParts(path, <<>>, <<>>), 1,
                      self.root_dir_lba, self.root_dir_size)

\* the extent read_dir lists for a path
ResolveDir(self, path) ==
    LET normalized == IF path = <<>> \/ path = <<47>> THEN <<47>>
                      ELSE TrimEndMatches(TrimStartMatches(path, 47), 47)
    IN IF normalized = <<47>>
       THEN [kind |-> "Ok", msg |-> "",
             extent |-> <<self.root_dir_lba, self.root_dir_size>>,
             entries |-> <<>>]
       ELSE FindDirectory(self, normalized)

\* a reader that keeps the directory it resolved as its root
ReadDirMovingRoot(self, path) ==
    LET found == ResolveDir(self, path)
    IN IF found.kind # "Ok" THEN [result |-> found, self |-> self]
       ELSE [result |-> ParseDirectoryEntries(self, found.extent[1], found.extent[2]),
             self |-> [self EXCEPT !.root_dir_lba = found.extent[1],
                                   !.root_dir_size = found.extent[2]]]

\* read_dir: its result and the reader afterwards (it takes &self)
ReadDir(self, path) ==
    LET found == ResolveDir(self, path)
    IN IF found.kind # "Ok" THEN [result |-> found, self |-> self]
       ELSE [result |-> ParseDirectoryEntries(self, found.extent[1], found.extent[2]),
             self |-> self]

\* parse_pvd on a reader whose root extent is still 0, 0
ParsePvd(self) ==
    LET sec == ReadSector(self, PVD_SECTOR) IN
    IF sec.kind # "Ok" THEN [kind |-> "ParseError", self |-> self]
    ELSE LET pvd == [j \in 1..170 |-> MmapAt(self.mmap, sec.start + j - 1)] IN
    IF SubSeq(pvd, 2, 6) # CD001 THEN [kind |-> "ParseError", self |-> self]
    ELSE IF pvd[1] # VD_PRIMARY THEN [kind |-> "ParseError", self |-> self]
    ELSE [kind |-> "Ok",
          self |-> [self EXCEPT !.root_dir_lba = U32At(pvd, 156 + 2),
                                !.root_dir_size = U32At(pvd, 156 + 10)]]

---------------------------------------------------------------------------
(* Archive entries: DatEntry                                               *)

DAT_SECTOR_SIZE == 2048

DatEntry(start, end) == [start_sector |-> start, end_sector |-> end]

ByteOffset(e) == e.start_sector * DAT_SECTOR_SIZE

\* the size with the comparison left out
ByteSizeUnguarded(e) == (e.end_sector - e.start_sector) * DAT_SECTOR_SIZE

ByteSize(e) ==
    IF e.end_sector > e.start_sector
    THEN (e.end_sector - e.start_sector) * DAT_SECTOR_SIZE
    ELSE 0

ByteRange(e) == <<ByteOffset(e), ByteSize(e)>>

SectorCount(e) ==
    IF e.end_sector > e.start_sector
    THEN e.end_sector - e.start_sector
    ELSE 0

---------------------------------------------------------------------------
(* LZSS decompression: LzssDecoder                                         *)

\* LzssConfig::standard()
WINDOW_SIZE == 4096
MIN_MATCH_LEN == 3

\* The window is kept as its non-zero bytes; every other byte of it is 0.
WindowAt(w, i) == IF i \in DOMAIN w THEN w[i] ELSE 0

\* write_to_window
WriteToWindow(d, byte) ==
    [d EXCEPT !.window =
                 IF byte = 0
                 THEN [i \in DOMAIN d.window \ {d.window_pos} |-> d.window[i]]
                 ELSE [i \in DOMAIN d.window \cup {d.window_pos} |->
                          IF i = d.window_pos THEN byte ELSE d.window[i]],
              !.window_pos = (d.window_pos + 1) % WINDOW_SIZE]

\* one byte to the writer and to the window
Emit(d, byte) ==
    LET w == WriteToWindow(d, byte)
    IN [w EXCEPT !.output = Append(d.output, byte),
                 !.total_written = d.total_written + 1]

\* the control byte reloading seven flags
ReadControlByteSeven(d) ==
    [d EXCEPT !.flags = d.input[d.cursor + 1], !.flag_count = 7,
              !.cursor = d.cursor + 1]

\* the control byte read when flag_count is 0 and input is left
ReadControlByte(d) ==
    [d EXCEPT !.flags = d.input[d.cursor + 1], !.flag_count = 8,
              !.cursor = d.cursor + 1]

\* the copy loop of a reference: length bytes, each window[offset]
RECURSIVE CopyFromWindow(_, _, _)
CopyFromWindow(d, ref_offset, length) ==
    IF length = 0 THEN d
    ELSE CopyFromWindow(Emit(d, WindowAt(d.window, ref_offset)), ref_offset, length - 1)

\* the token after the control byte: a literal or a reference
DecodeToken(d) ==
    IF d.flags % 2 # 0
    THEN IF d.cursor + 1 > Len(d.input)
         THEN [d EXCEPT !.pc = "error", !.cursor = Len(d.input)]
         ELSE Emit([d EXCEPT !.cursor = d.cursor + 1], d.input[d.cursor + 1])
    ELSE IF d.cursor + 2 > Len(d.input)
         THEN [d EXCEPT !.pc = "error", !.cursor = Len(d.input)]
         ELSE LET b0 == d.input[d.cursor + 1]
                  b1 == d.input[d.cursor + 2]
                  ref_offset == (b0 * 16) + (b1 \div 16)
                  length == (b1 % 16) + MIN_MATCH_LEN
              IN CopyFromWindow([d EXCEPT !.cursor = d.cursor + 2], ref_offset, length)

\* flags >>= 1; flag_count -= 1
ShiftFlags(d) ==
    IF d.pc = "error" THEN d
    ELSE [d EXCEPT !.flags = d.flags \div 2, !.flag_count = d.flag_count - 1]

\* one pass of the loop of decompress
LzssIteration(d) ==
    IF d.flag_count = 0 /\ d.cursor >= Len(d.input)
    THEN [d EXCEPT !.pc = "done"]
    ELSE ShiftFlags(DecodeToken(IF d.flag_count = 0 THEN ReadControlByte(d)
                                ELSE d))

\* reset that moves the cursor back and leaves the window as it is
ResetCursorOnly(d) == [d EXCEPT !.window_pos = 0]

\* LzssDecoder::reset: window.fill(0), window_pos = 0
Reset(d) == [d EXCEPT !.window = <<>>, !.window_pos = 0]

\* decompress_buf up to the loop of decompress: a cursor at the start of
\* compressed, an empty output, no flags
EnterDecompress(d, compressed) ==
    [d EXCEPT !.pc = "decoding", !.input = compressed, !.cursor = 0,
              !.flags = 0, !.flag_count = 0, !.output = <<>>,
              !.total_written = 0]

\* LzssDecoder::new(LzssConfig::standard())
NewDecoder ==
    [pc |-> "idle", input |-> <<>>, cursor |-> 0, window |-> <<>>,
     window_pos |-> 0, flags |-> 0, flag_count |-> 0, output |-> <<>>,
     total_written |-> 0]

\* the loop of decompress up to its return
RECURSIVE Decompress(_)
Decompress(d) ==
    IF d.pc # "decoding" THEN d ELSE Decompress(LzssIteration(d))

\* decompress_buf: Ok(output) or the error of decompress
DecompressBuf(d, compressed) ==
    LET r == Decompress(EnterDecompress(d, compressed))
    IN IF r.pc = "error" THEN [kind |-> "Err", output |-> <<>>]
       ELSE [kind |-> "Ok", output |-> r.output]

---------------------------------------------------------------------------
(* Polygon models: Tmd::parse                                              *)

TMD_MAGIC == 65
MAX_OBJECTS == 1000
MAX_VERTS == 100000
MAX_NORMALS == 100000

\* i16::from_le_bytes at byte offset off of data
I16At(data, off) ==
    LET v == U16At(data, off) IN IF v >= 32768 THEN v - 65536 ELSE v

NoTmd == [flags |-> 0, objects |-> <<>>]
TmdErr(msg) == [kind |-> "ParseError", msg |-> msg, tmd |-> NoTmd]
TmdPanic == [kind |-> "Panic", msg |-> "index out of range", tmd |-> NoTmd]

\* a list under construction, or the error or panic that ended it
ListOk(items) == [kind |-> "Ok", msg |-> "", items |-> items]
ListErr(msg) == [kind |-> "ParseError", msg |-> msg, items |-> <<>>]
ListPanic == [kind |-> "Panic", msg |-> "index out of range", items |-> <<>>]

\* the vertex loop without its bounds check
RECURSIVE ParseVerticesUnchecked(_, _, _, _, _)
ParseVerticesUnchecked(file_data, vert_offset, vert_count, i, vertices) ==
    IF i >= vert_count THEN ListOk(vertices)
    ELSE LET voffset == vert_offset + (i * 8)
             vdata == Slice(file_data, voffset, voffset + 8) IN
    IF vdata = Panic THEN ListPanic
    ELSE ParseVerticesUnchecked(file_data, vert_offset, vert_count, i + 1,
            Append(vertices, [x |-> I16At(vdata, 0), y |-> I16At(vdata, 2),
                              z |-> I16At(vdata, 4)]))

\* the vertex loop of parse_object from vertex i on
RECURSIVE ParseVertices(_, _, _, _, _)
ParseVertices(file_data, vert_offset, vert_count, i, vertices) ==
    IF i >= vert_count THEN ListOk(vertices)
    ELSE LET voffset == vert_offset + (i * 8) IN
    IF voffset + 8 > Len(file_data) THEN ListErr("Vertex out of bounds")
    ELSE LET vdata == Slice(file_data, voffset, voffset + 8) IN
    IF vdata = Panic THEN ListPanic
    ELSE ParseVertices(file_data, vert_offset, vert_count, i + 1,
            Append(vertices, [x |-> I16At(vdata, 0), y |-> I16At(vdata, 2),
                              z |-> I16At(vdata, 4)]))

\* the normal loop of parse_object from normal i on
RECURSIVE ParseNormals(_, _, _, _, _)
ParseNormals(file_data, normal_offset, normal_count, i, normals) ==
    IF i >= normal_count THEN ListOk(normals)
    ELSE LET noffset == normal_offset + (i * 8) IN
    IF noffset + 8 > Len(file_data) THEN ListErr("Normal out of bounds")
    ELSE LET ndata == Slice(file_data, noffset, noffset + 8) IN
    IF ndata = Panic THEN ListPanic
    ELSE ParseNormals(file_data, normal_offset, normal_count, i + 1,
            Append(normals, [nx |-> I16At(ndata, 0), ny |-> I16At(ndata, 2),
                             nz |-> I16At(ndata, 4)]))

NoTextureInfo == [present |-> FALSE, clut_x |-> 0, clut_y |-> 0, tpage |-> 0]

\* parse_triangle (n = 3) and parse_quad (n = 4): normals, vertex indices
\* and, if textured, 12 or 16 bytes of UVs and texture info
ParsePolygon(data, pos, n, is_textured, is_gouraud) ==
    LET nbytes == IF is_gouraud THEN 2 * n ELSE 2
        vpos == pos + nbytes
        tpos == vpos + (2 * n)
        tbytes == IF n = 3 THEN 12 ELSE 16
        uvoff == IF n = 3 THEN <<0, 6, 10>> ELSE <<0, 6, 10, 14>>
    IN IF pos + nbytes > Len(data) THEN ListErr("normals out of bounds")
       ELSE IF vpos + (2 * n) > Len(data) THEN ListErr("vertices out of bounds")
       ELSE IF is_textured /\ tpos + tbytes > Len(data)
       THEN ListErr("texture data out of bounds")
       ELSE ListOk(<<[kind |-> IF n = 3 THEN "Triangle" ELSE "Quad",
                      vertices |-> [k \in 1..n |-> U16At(data, vpos + (2 * (k - 1)))],
                      normals |-> [k \in 1..n |->
                                      IF is_gouraud
                                      THEN U16At(data, pos + (2 * (k - 1)))
                                      ELSE U16At(data, pos)],
                      uvs |-> IF is_textured
                              THEN [k \in 1..n |->
                                       <<data[tpos + uvoff[k] + 1],
                                         data[tpos + uvoff[k] + 2]>>]
                              ELSE <<>>,
                      texture_info |->
                          IF is_textured
                          THEN [present |-> TRUE, clut_x |-> U16At(data, tpos + 2),
                                clut_y |-> U16At(data, tpos + 4),
                                tpage |-> U16At(data, tpos + 8)]
                          ELSE NoTextureInfo]>>)

\* parse_primitive: the packet header selects the polygon
ParsePrimitive(data, off) ==
    IF off + 4 > Len(data) THEN ListErr("Primitive header out of bounds")
    ELSE LET mode == data[off + 4]
             is_quad == ((mode \div 8) % 2) # 0
             is_textured == ((mode \div 4) % 2) # 0
             is_gouraud == ((mode \div 16) % 2) # 0
         IN ParsePolygon(data, off + 4, IF is_quad THEN 4 ELSE 3,
                         is_textured, is_gouraud)

\* primitive_packet_size at an offset inside the buffer
PrimitivePacketSize(data, off) == data[off + 1] * 4

\* one pass of the primitive loop of parse_object with left passes to go,
\* the cursor at prim_pos: "Next" with the cursor and list it leaves, "Ok"
\* when the loop ends, or the error of the packet
ParsePrimitivesIteration(file_data, prim_pos, left, primitives) ==
    IF left = 0 \/ prim_pos >= Len(file_data) \/ prim_pos + 4 > Len(file_data)
    THEN [kind |-> "Ok", msg |-> "", items |-> primitives,
          prim_pos |-> prim_pos, left |-> left]
    ELSE LET prim == ParsePrimitive(file_data, prim_pos) IN
    IF prim.kind # "Ok"
    THEN [kind |-> prim.kind, msg |-> prim.msg, items |-> <<>>,
          prim_pos |-> prim_pos, left |-> left]
    ELSE [kind |-> "Next", msg |-> "", items |-> primitives \o prim.items,
          prim_pos |-> prim_pos + PrimitivePacketSize(file_data, prim_pos),
          left |-> left - 1]

\* the primitive loop of parse_object with left passes to go
RECURSIVE ParsePrimitives(_, _, _, _)
ParsePrimitives(file_data, prim_pos, left, primitives) ==
    LET it == ParsePrimitivesIteration(file_data, prim_pos, left, primitives)
    IN IF it.kind = "Next"
       THEN ParsePrimitives(file_data, it.prim_pos, it.left, it.items)
       ELSE [kind |-> it.kind, msg |-> it.msg, items |-> it.items]

\* parse_object on one 28-byte entry of the object table
ParseObject(file_data, obj_entry) ==
    LET vert_offset == U32At(obj_entry, 0)
        vert_count == U32At(obj_entry, 4)
        normal_offset == U32At(obj_entry, 8)
        normal_count == U32At(obj_entry, 12)
        prim_offset == U32At(obj_entry, 16)
        prim_count == U32At(obj_entry, 20)
        scale == SubSeq(obj_entry, 25, 28)
    IN IF vert_count > MAX_VERTS THEN ListErr("TMD vertex count too large")
       ELSE IF normal_count > MAX_NORMALS
       THEN ListErr("TMD normal count too large")
       ELSE LET vertices == ParseVertices(file_data, vert_offset, vert_count,
                                          0, <<>>) IN
       IF vertices.kind # "Ok" THEN vertices
       ELSE LET normals == ParseNormals(file_data, normal_offset,
                                        normal_count, 0, <<>>) IN
       IF normals.kind # "Ok" THEN normals
       ELSE LET primitives == ParsePrimitives(file_data, prim_offset,
                                              prim_count, <<>>) IN
       IF primitives.kind # "Ok" THEN primitives
       ELSE ListOk(<<[vertices |-> vertices.items, normals |-> normals.items,
                      primitives |-> primitives.items, scale |-> scale]>>)

\* the object-table loop of parse_standard_tmd from entry i on
RECURSIVE ParseObjectTable(_, _, _, _)
ParseObjectTable(data, num_objects, i, objects) ==
    IF i >= num_objects THEN ListOk(objects)
    ELSE LET obj_offset == 12 + (i * 28) IN
    IF obj_offset + 28 > Len(data)
    THEN ListErr("Object table entry out of bounds")
    ELSE LET object == ParseObject(data, SubSeq(data, obj_offset + 1,
                                                obj_offset + 28)) IN
    IF object.kind # "Ok" THEN object
    ELSE ParseObjectTable(data, num_objects, i + 1, objects \o object.items)

ParseStandardTmd(data) ==
    LET num_objects == U32At(data, 8) IN
    IF num_objects = 0 THEN TmdErr("TMD has zero objects")
    ELSE IF num_objects > MAX_OBJECTS THEN TmdErr("TMD object count too large")
    ELSE LET objects == ParseObjectTable(data, num_objects, 0, <<>>) IN
    IF objects.kind = "Panic" THEN TmdPanic
    ELSE IF objects.kind # "Ok" THEN TmdErr(objects.msg)
    ELSE [kind |-> "Ok", msg |-> "",
          tmd |-> [flags |-> SubSeq(data, 5, 8), objects |-> objects.items]]

TmdParse(data) ==
    IF Len(data) < 12 THEN TmdErr("TMD file too small for header")
    ELSE IF U32At(data, 0) # TMD_MAGIC THEN TmdErr("Invalid TMD magic number")
    ELSE ParseStandardTmd(data)

---------------------------------------------------------------------------
(* Streaming audio sub-headers: XaSubHeader::parse                         *)

XA_SUBHEADER_SIZE == 8

\* bit k (0 the lowest) of a byte
BitOf(byte, k) == (byte \div (2 ^ k)) % 2

\* u8::count_ones of the low three bits
CountOnes3(bits) == BitOf(bits, 0) + BitOf(bits, 1) + BitOf(bits, 2)

\* the validity test taken on the low three bits, without the shift
SubModeIsValidUnshifted(bits) == CountOnes3(bits % 8) <= 1

\* SubMode::is_valid: dav_bits = (bits >> 1) & 0x07
SubModeIsValid(bits) == CountOnes3((bits \div 2) % 8) <= 1

\* CodingInfo::is_valid: bits & MASK_RESERVED (0x2A) == 0
CodingInfoIsValid(bits) ==
    BitOf(bits, 1) = 0 /\ BitOf(bits, 3) = 0 /\ BitOf(bits, 5) = 0

XaNone == [some |-> FALSE, header |-> <<>>]

\* XaSubHeader::parse: Some(header) or None
XaSubHeaderParse(data) ==
    IF Len(data) < XA_SUBHEADER_SIZE THEN XaNone
    ELSE IF \/ data[1] # data[5]
            \/ data[2] # data[6]
            \/ data[3] # data[7]
            \/ data[4] # data[8]
    THEN XaNone
    ELSE IF ~SubModeIsValid(data[3]) \/ ~CodingInfoIsValid(data[4]) THEN XaNone
    ELSE [some |-> TRUE,
          header |-> [file_number |-> data[1], channel |-> data[2],
                      sub_mode |-> data[3], coding_info |-> data[4]]]

---------------------------------------------------------------------------
(* DAT archives: DatArchive::parse and DatArchive::extract_file            *)

\* the entry count past which parse gives up
SafetyLimit == 10000

\* byte i (from 0) of an archive buffer: the bytes of head, then either the
\* 8 bytes of fill over and over or, with no fill, file data that differs
\* from sector to sector
DatAt(d, i) ==
    IF i < Len(d.head) THEN d.head[i + 1]
    ELSE IF d.fill # <<>> THEN d.fill[(i % 8) + 1]
    ELSE ((i \div DAT_SECTOR_SIZE) + i) % 256

\* u32::from_le_bytes of data[o..o + 4]
DatU32At(d, o) ==
    U32At(<<DatAt(d, o), DatAt(d, o + 1), DatAt(d, o + 2), DatAt(d, o + 3)>>, 0)

DatErr(off) ==
    [pc |-> "ParseError", offset |-> off, entries |-> <<>>, table_size |-> 0]

\* DatArchive::parse behind its loop
DatParseFinish(off, table, tsize) ==
    IF table = <<>> THEN DatErr(off)
    ELSE [pc |-> "Ok", offset |-> off, entries |-> table,
          table_size |-> IF tsize = 0 THEN off ELSE tsize]

\* one pass of the loop with the padding test taken on the first pair too
DatParseIterationPaddingFirst(d, off, table) ==
    IF off + 8 > d.len THEN DatParseFinish(off, table, 0)
    ELSE LET entry == DatEntry(DatU32At(d, off), DatU32At(d, off + 4))
             byte_end == ByteOffset(entry) + ByteSize(entry) IN
    IF byte_end > d.len * 2 THEN DatParseFinish(off, table, off)
    ELSE IF entry.start_sector = 0 /\ entry.end_sector = 0
    THEN DatParseFinish(off, table, off)
    ELSE IF Len(table) + 1 > SafetyLimit THEN DatErr(off + 8)
    ELSE [pc |-> "loop", offset |-> off + 8, entries |-> Append(table, entry),
          table_size |-> 0]

\* one pass of the loop of DatArchive::parse with the cursor at off, and the
\* code behind the loop when the pass leaves it
DatParseIteration(d, off, table) ==
    IF off + 8 > d.len THEN DatParseFinish(off, table, 0)
    ELSE LET entry == DatEntry(DatU32At(d, off), DatU32At(d, off + 4))
             byte_end == ByteOffset(entry) + ByteSize(entry) IN
    IF byte_end > d.len * 2 THEN DatParseFinish(off, table, off)
    ELSE IF Len(table) > 0 /\ entry.start_sector = 0 /\ entry.end_sector = 0
    THEN DatParseFinish(off, table, off)
    ELSE IF Len(table) + 1 > SafetyLimit THEN DatErr(off + 8)
    ELSE [pc |-> "loop", offset |-> off + 8, entries |-> Append(table, entry),
          table_size |-> 0]

NoExtract == [kind |-> "None", index |-> -1, data |-> <<>>]

ExtractErr(index) == [kind |-> "ParseError", index |-> index, data |-> <<>>]

\* extract_file with the bound parse uses, twice the buffer length
ExtractFileDoubleBound(d, table, index) ==
    IF index >= Len(table) THEN ExtractErr(index)
    ELSE LET entry == table[index + 1]
             entry_offset == ByteOffset(entry)
             size == ByteSize(entry)
             file_end == entry_offset + size IN
    IF file_end > d.len * 2 THEN ExtractErr(index)
    ELSE IF file_end > d.len
    THEN [kind |-> "Panic", index |-> index, data |-> <<>>]
    ELSE [kind |-> "Ok", index |-> index,
          data |-> [i \in 1..size |-> DatAt(d, entry_offset + i - 1)]]

\* DatArchive::extract_file
ExtractFile(d, table, index) ==
    IF index >= Len(table) THEN ExtractErr(index)
    ELSE LET entry == table[index + 1]
             entry_offset == ByteOffset(entry)
             size == ByteSize(entry)
             file_end == entry_offset + size IN
    IF file_end > d.len THEN ExtractErr(index)
    ELSE [kind |-> "Ok", index |-> index,
          data |-> [i \in 1..size |-> DatAt(d, entry_offset + i - 1)]]

---------------------------------------------------------------------------
(* Chunked scanning: the loop of scan_prot_dat                             *)

\* the loop of scan_tim from cursor off on
RECURSIVE ScanTimLoop(_, _, _, _, _)
ScanTimLoop(data, base, min, off, found) ==
    IF ~(off + 12 <= Len(data))
    THEN [assets |-> found, panicked |-> FALSE]
    ELSE LET r == ScanTimIteration(data, base, min, off, found)
         IN IF r.panicked THEN [assets |-> r.assets, panicked |-> TRUE]
            ELSE ScanTimLoop(data, base, min, r.offset, r.assets)

\* AssetScanner::new(data).with_min_size(min).scan()
Scan(data, base, min) ==
    LET r == ScanTimLoop(data, base, min, 0, <<>>)
    IN [assets |-> SortByOffset(r.assets), panicked |-> r.panicked]

\* asset.offset += entry_offset, for every asset of a chunk
Rebase(list, by) ==
    [i \in 1..Len(list) |-> [list[i] EXCEPT !.offset = list[i].offset + by]]



---------------------------------------------------------------------------
(* VAG loop points: Vag::find_loop_points                                  *)

OptNone == [some |-> FALSE, value |-> 0]
OptSome(v) == [some |-> TRUE, value |-> v]

\* data.chunks(16): chunk k (from 0) of the data, the last one maybe short
Chunk16(data, k) == SubSeq(data, 16 * k + 1, Min(16 * k + 16, Len(data)))

\* the number of chunks of data.chunks(16)
ChunkCount(data) == (Len(data) + 15) \div 16

\* the loop keeping the first loop start it meets
RECURSIVE FindLoopPointsFromFirstStart(_, _, _, _)
FindLoopPointsFromFirstStart(data, block_idx, ls, le) ==
    IF block_idx >= ChunkCount(data) THEN <<ls, le>>
    ELSE LET chunk == Chunk16(data, block_idx) IN
    IF Len(chunk) < 2 THEN <<ls, le>>
    ELSE LET code == chunk[2]
             sample_pos == block_idx * 28
             first == IF ls.some THEN ls ELSE OptSome(sample_pos) IN
    IF code = 2
    THEN FindLoopPointsFromFirstStart(data, block_idx + 1, first, le)
    ELSE IF code = 3
    THEN FindLoopPointsFromFirstStart(data, block_idx + 1, ls, OptSome(sample_pos))
    ELSE IF code = 6
    THEN FindLoopPointsFromFirstStart(data, block_idx + 1, first,
                                      OptSome(sample_pos + 28))
    ELSE FindLoopPointsFromFirstStart(data, block_idx + 1, ls, le)

\* the loop of find_loop_points from chunk block_idx on
RECURSIVE FindLoopPointsFrom(_, _, _, _)
FindLoopPointsFrom(data, block_idx, ls, le) ==
    IF block_idx >= ChunkCount(data) THEN <<ls, le>>
    ELSE LET chunk == Chunk16(data, block_idx) IN
    IF Len(chunk) < 2 THEN <<ls, le>>
    ELSE LET code == chunk[2]
             sample_pos == block_idx * 28 IN
    IF code = 2
    THEN FindLoopPointsFrom(data, block_idx + 1, OptSome(sample_pos), le)
    ELSE IF code = 3
    THEN FindLoopPointsFrom(data, block_idx + 1, ls, OptSome(sample_pos))
    ELSE IF code = 6
    THEN FindLoopPointsFrom(data, block_idx + 1, OptSome(sample_pos),
                            OptSome(sample_pos + 28))
    ELSE FindLoopPointsFrom(data, block_idx + 1, ls, le)

\* Vag::find_loop_points
FindLoopPoints(data) == FindLoopPointsFrom(data, 0, OptNone, OptNone)

---------------------------------------------------------------------------
(* Input buffers                                                           *)

MaxTail == 1
MaxBase == 1
MaxPixelDelta == 3
MaxPieces == 3

RECURSIVE Concat(_)
Concat(seqs) == IF seqs = <<>> THEN <<>> ELSE Head(seqs) \o Concat(Tail(seqs))

TimHeaderBytes(magic, flags) == Le32(magic) \o Le32(flags)
BlockHeaderBytes(size, w, h) ==
    Le32(size) \o Le16(0) \o Le16(0) \o Le16(w) \o Le16(h)

\* palette entry k: black key, opaque black, a colour, a blended colour
PaletteColors == <<0, 32768, 31775, 65535>>
ClutBlockBytes(n, delta) ==
    BlockHeaderBytes(12 + 2 * n + delta, n, 1)
        \o Concat([k \in 1..n |-> Le16(PaletteColors[((k - 1) % 4) + 1])])
        \o [i \in 1..delta |-> 170]

\* a pixel block of w words by h rows whose size field is delta above the
\* 12 + 2wh its dimensions need, filled with the 16-bit words of pat in turn
PixelBlockBytes(w, h, delta, pat) ==
    BlockHeaderBytes(12 + 2 * w * h + delta, w, h)
        \o [i \in 1..(2 * w * h + delta) |->
              Le16(pat[(((i - 1) \div 2) % Len(pat)) + 1])[((i - 1) % 2) + 1]]

PixelDims == {<<0, 1>>, <<1, 1>>, <<3, 1>>, <<1, 2>>}
PixelPatterns == {<<0, 32768>>, <<32768, 16>>, <<16, 32767>>}
PlainFlags == {0, 1, 2, 3, 4, 5, 6, 7, 18, 258, 65536, 1073741826}
ClutFlags == {8, 9, 10, 12, 13, 24}
ClutEntries == {0, 1, 4}

PixelBlocks ==
    {PixelBlockBytes(d[1], d[2], delta, w) :
        d \in PixelDims, delta \in 0..MaxPixelDelta, w \in PixelPatterns}
ClutBlocks == {ClutBlockBytes(n, delta) : n \in ClutEntries, delta \in 0..1}

TimBuffers ==
    {TimHeaderBytes(TIM_MAGIC, f) \o px \o [i \in 1..t |-> 204] :
        f \in PlainFlags, px \in PixelBlocks, t \in 0..MaxTail}
    \cup {TimHeaderBytes(TIM_MAGIC, f) \o cl \o px \o [i \in 1..t |-> 204] :
        f \in ClutFlags, cl \in ClutBlocks, px \in PixelBlocks, t \in 0..MaxTail}
    \cup {TimHeaderBytes(17, 2) \o PixelBlockBytes(1, 1, 0, <<0>>)}

\* pieces a scanned region is assembled from
SmallTim == TimHeaderBytes(TIM_MAGIC, 2) \o PixelBlockBytes(1, 1, 0, <<4660>>)
NestedTim ==
    TimHeaderBytes(TIM_MAGIC, 2) \o BlockHeaderBytes(12 + 22, 11, 1) \o SmallTim
ClutTim ==
    TimHeaderBytes(TIM_MAGIC, 8) \o ClutBlockBytes(16, 0)
        \o PixelBlockBytes(1, 1, 0, <<16>>)
BadCandidate == TimHeaderBytes(TIM_MAGIC, 255) \o <<0, 0, 0, 0>>
JunkByte == <<7>>
ScanPieces == {SmallTim, NestedTim, ClutTim, BadCandidate, JunkByte}
\* textures whose last bytes the region does not hold
CutRegions ==
    {SubSeq(SmallTim, 1, 21), JunkByte \o SubSeq(ClutTim, 1, 64),
     ClutTim \o SubSeq(NestedTim, 1, 41), SubSeq(ClutTim, 1, 30)}
ScanRegions ==
    {Concat(ps) : ps \in UNION {[1..n -> ScanPieces] : n \in 1..MaxPieces}}
        \cup CutRegions

\* regions of a scan followed to its end
MaxFairPieces == 2
FairRegions ==
    {Concat(ps) : ps \in UNION {[1..n -> ScanPieces] : n \in 1..MaxFairPieces}}

MaxBlocks == 2

\* a 16-byte ADPCM block: header byte, flag byte, 14 data bytes d1 d2 d1 ...
VagBlock(hdr, flag, d1, d2) ==
    <<hdr, flag>> \o [i \in 1..14 |-> IF i % 2 = 1 THEN d1 ELSE d2]

\* filter 0, every shift, all data nibbles zero
SilentBlocks == {VagBlock(16 * sh, 0, 0, 0) : sh \in 0..15}
\* filters 0, 2 and 4 at shifts 0, 4 and 12 with loud or silent data
LoudBlocks ==
    {VagBlock(0, 0, 119, 136), VagBlock(66, 0, 127, 24),
     VagBlock(196, 0, 119, 136), VagBlock(66, 0, 0, 0),
     VagBlock(5, 0, 119, 119)}
VagBlocks == SilentBlocks \cup LoudBlocks
\* whole blocks, or one block and a partial chunk
VagStreams ==
    {Concat(bs) : bs \in UNION {[1..n -> VagBlocks] : n \in 1..MaxBlocks}}
    \cup {b \o <<0, 0, 0>> : b \in VagBlocks}

\* the documented field ranges of a position
MaxMinutes == 99
MaxSeconds == 59
MaxSectors == 74
MaxSectorNumber ==
    ToSectorNumber(CdromPosition(MaxMinutes, MaxSeconds, MaxSectors))

InRange(p) ==
    /\ p.minute \in 0..MaxMinutes
    /\ p.second \in 0..MaxSeconds
    /\ p.sector \in 0..MaxSectors

\* the minutes tried, each with every second and every sector
MinuteSamples == {0, 1, 2, 31, 32, 63, 64, 97, 98, MaxMinutes}

\* positions in range, and some u8 triples outside it
PositionInputs ==
    {CdromPosition(m, s, f) :
        m \in MinuteSamples, s \in 0..MaxSeconds, f \in 0..MaxSectors}
    \cup {CdromPosition(0, 60, 0), CdromPosition(0, 0, 75),
          CdromPosition(255, 59, 74)}
\* the sector numbers of those minutes, and some u32 values outside the range
SectorInputs ==
    {(m * 60 * 75) + r : m \in MinuteSamples, r \in 0..((60 * 75) - 1)}
    \cup {450000, 1152000}

MaxCalls == 2

Zeros(n) == [i \in 1..n |-> 0]

\* an ISO 9660 directory record: length, extent, flags, identifier
DirRecord(lba, size, flags, name) ==
    <<33 + Len(name), 0>> \o Le32(lba) \o Zeros(4) \o Le32(size) \o Zeros(11)
        \o <<flags>> \o Zeros(6) \o <<Len(name)>> \o name

DotRecords(lba, size) ==
    DirRecord(lba, size, FLAG_DIRECTORY, <<0>>)
        \o DirRecord(lba, size, FLAG_DIRECTORY, <<1>>)

\* the data window of a volume descriptor with its root directory record
PvdWindow(type, ident, root_lba, root_size) ==
    <<type>> \o ident \o Zeros(150)
        \o DirRecord(root_lba, root_size, FLAG_DIRECTORY, <<0>>)

NameMOV == <<77, 79, 86>>
NameMovLower == <<109, 111, 118>>
NameSUB == <<83, 85, 66>>
NameLOOP == <<76, 79, 79, 80>>
NameFAR == <<70, 65, 82>>
NameFile == <<65, 46, 83, 84, 82, 59, 49>>

\* root at sector 18 with MOV (19), a file, a second mov (20), LOOP (the
\* root again) and FAR (beyond the image); MOV holds SUB (20)
\* directory data with a record of 20 bytes before MOV and, before SUB, a
\* record whose name length of 10 passes its 34 bytes
MalformedDirectory ==
    DotRecords(21, 2048)
    \o DirRecord(20, 100, 0, NameFile)
    \o <<20>> \o Zeros(19)
    \o DirRecord(19, 2048, FLAG_DIRECTORY, NameMOV)
    \o [DirRecord(20, 2048, FLAG_DIRECTORY, <<88>>) EXCEPT ![33] = 10]
    \o DirRecord(20, 2048, FLAG_DIRECTORY, NameSUB)

PlainSectors(root_tag) ==
    (16 :> PvdWindow(VD_PRIMARY, root_tag, 18, 2048))
    @@ (18 :> (DotRecords(18, 2048)
               \o DirRecord(19, 2048, FLAG_DIRECTORY, NameMOV)
               \o DirRecord(20, 100, 0, NameFile)
               \o DirRecord(20, 2048, FLAG_DIRECTORY, NameMovLower)
               \o DirRecord(18, 2048, FLAG_DIRECTORY, NameLOOP)
               \o DirRecord(30, 2048, FLAG_DIRECTORY, NameFAR)))
    @@ (19 :> (DotRecords(19, 2048)
               \o DirRecord(20, 2048, FLAG_DIRECTORY, NameSUB)))
    @@ (20 :> (DotRecords(20, 2048) \o DirRecord(21, 7, 0, NameFile)))
    @@ (21 :> MalformedDirectory)

\* a root of two sectors: the first ends in padding, MOV is in the second
TwoSectorRoot ==
    (16 :> PvdWindow(VD_PRIMARY, CD001, 18, 4096))
    @@ (18 :> (DotRecords(18, 4096) \o DirRecord(21, 7, 0, NameFile)))
    @@ (19 :> DirRecord(20, 2048, FLAG_DIRECTORY, NameMOV))
    @@ (20 :> (DotRecords(20, 2048)
               \o DirRecord(20, 2048, FLAG_DIRECTORY, NameSUB)))

CdImages ==
    {[len |-> 22 * SECTOR_SIZE, sectors |-> PlainSectors(CD001)],
     [len |-> 22 * SECTOR_SIZE, sectors |-> TwoSectorRoot],
     \* sector 19 is cut short
     [len |-> (19 * SECTOR_SIZE) + 100, sectors |-> PlainSectors(CD001)],
     \* not an ISO 9660 volume
     [len |-> 22 * SECTOR_SIZE, sectors |-> PlainSectors(<<67, 68, 48, 48, 50>>)],
     \* no sector 16
     [len |-> 10 * SECTOR_SIZE, sectors |-> PlainSectors(CD001)]}

\* directory extents listed: whole sectors, two sectors, sizes that cut a
\* record, no byte, and a sector behind the image
DirExtents ==
    {<<18, 2048>>, <<18, 4096>>, <<18, 150>>, <<18, 230>>, <<18, 0>>,
     <<19, 2048>>, <<20, 2048>>, <<21, 2048>>, <<23, 2048>>}

\* extents read: from the volume descriptor to the sector behind the image,
\* of no byte, part of a window, whole windows and a byte more
ReadLbas == {16, 18, 19, 21, 22}
ReadSizes == {0, 1, 100, 2048, 2049, 4096, 4097}

\* "/", "", "/MOV", "mov/", "/MOV/SUB", "MOV//SUB", "/A.STR", "/LOOP/MOV",
\* "/FAR"
DirPaths ==
    {<<47>>, <<>>,
     <<47>> \o NameMOV, NameMovLower \o <<47>>,
     <<47>> \o NameMOV \o <<47>> \o NameSUB,
     NameMOV \o <<47, 47>> \o NameSUB,
     <<47, 65, 46, 83, 84, 82>>,
     <<47>> \o NameLOOP \o <<47>> \o NameMOV,
     <<47>> \o NameFAR}

MaxSector == 8

\* small sector numbers, and the largest whose byte offset the checker's
\* integers hold
SectorNumbers == (0..MaxSector) \cup {1048575}

MaxGroups == 2

\* eight literal bytes: "Hello!!!", 0xFF throughout, zeros, a ramp
LiteralRuns ==
    {<<72, 101, 108, 108, 111, 33, 33, 33>>,
     <<255, 255, 255, 255, 255, 255, 255, 255>>,
     <<0, 0, 0, 0, 0, 0, 0, 0>>,
     <<1, 2, 3, 4, 5, 6, 7, 8>>}

\* a control byte 0xFF and its eight literals
LiteralGroup(run) == <<255>> \o run

LiteralStreams ==
    {Concat(gs) :
        gs \in UNION {[1..n -> {LiteralGroup(r) : r \in LiteralRuns}] :
                         n \in 0..MaxGroups}}

\* streams with references, a short last group and a cut token
OtherStreams ==
    {<<254, 0, 0, 65, 66, 67, 68, 69, 70, 71>>,
     <<255, 65, 66, 67, 68, 69, 70, 71, 72, 0, 0, 1>>,
     <<255, 65, 66, 67>>,
     <<3, 65, 66>>,
     <<255, 65, 66, 67, 68, 69, 70, 71, 72, 1, 73>>,
     <<0, 0>>}

LzssStreams == LiteralStreams \cup OtherStreams

\* resets of one decoder
MaxResets == 1

\* streams given to a decoder that was used before
LaterStreams == OtherStreams \cup {LiteralGroup(<<72, 101, 108, 108, 111, 33, 33, 33>>)}

MaxObjects == 2

\* 24 bytes behind the object table: one primitive packet of two words with
\* the given mode, its fields doubling as vertex and normal records
TmdDataArea(mode) ==
    <<2, 1, 0, mode, 1, 0, 2, 0, 3, 0, 255, 255, 0, 128, 5, 0, 6, 0, 7, 0,
      8, 0, 9, 9>>

\* flat triangle, gouraud triangle, textured triangle, textured gouraud quad
TmdModes == {32, 48, 36, 60}

\* (offset into the data area, count) of vertices, normals and primitives
TmdVertexRuns == {<<0, 2>>, <<8, 2>>, <<8, 3>>, <<20, 1>>}
TmdNormalRuns == {<<0, 0>>, <<17, 1>>}
TmdPrimitiveRuns == {<<0, 1>>, <<8, 2>>, <<12, 2>>}

TmdEntryBytes(area, v, n, p) ==
    Le32(area + v[1]) \o Le32(v[2]) \o Le32(area + n[1]) \o Le32(n[2])
        \o Le32(area + p[1]) \o Le32(p[2]) \o Le32(4096)

\* header, object table of the entries, data area
TmdBytes(declared, entries, mode) ==
    Le32(TMD_MAGIC) \o Le32(0) \o Le32(declared)
        \o Concat([i \in 1..Len(entries) |->
                      TmdEntryBytes(12 + (28 * Len(entries)), entries[i][1],
                                    entries[i][2], entries[i][3])])
        \o TmdDataArea(mode)

TmdEntries == TmdVertexRuns \X TmdNormalRuns \X TmdPrimitiveRuns

\* tables of 1..MaxObjects entries declared truly; a table of one entry
\* declared as 0, 2 or 1001 objects, or with a vertex count past MAX_VERTS;
\* a bad magic and a short header
TmdInputs ==
    {TmdBytes(Len(es), es, mode) :
        es \in UNION {[1..k -> TmdEntries] : k \in 1..MaxObjects},
        mode \in TmdModes}
    \cup {TmdBytes(d, <<e>>, 32) : d \in {0, 2, 1001}, e \in TmdEntries}
    \cup {TmdBytes(1, <<<<<<0, 100001>>, <<0, 0>>, <<0, 0>>>>>>, 32),
          <<66>> \o Tail(TmdBytes(1, <<<<<<0, 2>>, <<0, 0>>, <<0, 0>>>>>>, 32)),
          SubSeq(TmdBytes(0, <<>>, 32), 1, 11)}

\* coding-info bytes: with and without reserved bits
XaCodingBytes == {0, 1, 4, 5, 16, 21, 64, 85, 2, 8, 32, 42, 128, 255}

\* the first half of a sub-header: every sub-mode byte
XaHalves ==
    {<<1, 31, sm, ci>> : sm \in 0..255, ci \in XaCodingBytes}

\* a half with byte k changed
XaDamaged(half, k) == [half EXCEPT ![k] = (half[k] + 1) % 256]

\* both halves alike, with sector bytes behind or not; the second half
\* damaged in one byte; seven bytes only
XaInputs ==
    {h \o h : h \in XaHalves}
    \cup {h \o h \o <<1, 2, 3>> : h \in XaHalves}
    \cup {h \o XaDamaged(h, k) : h \in XaHalves, k \in 1..4}
    \cup {SubSeq(h \o h, 1, 7) : h \in XaHalves}

MaxPairs == 2

\* pairs in tables: all zero, inside the buffers, end below start, and
\* behind the buffers
DatPairs ==
    {<<0, 0>>, <<0, 1>>, <<1, 2>>, <<2, 1>>, <<1, 1000>>, <<1000, 1000>>}

PairBytes(p) == Le32(p[1]) \o Le32(p[2])

\* the bytes of a table of pairs
TableBytes(t) ==
    [i \in 1..(8 * Len(t)) |->
        PairBytes(t[((i - 1) \div 8) + 1])[((i - 1) % 8) + 1]]

DatTables ==
    UNION {[1..n -> DatPairs] : n \in 1..MaxPairs}

\* archives: the table alone up to the end of the buffer; the table, an
\* all-zero pair and file data up to one or two sectors; 12 bytes; and
\* tables of equal pairs (1, 1) that fill the limit and pass it
DatArchives ==
    {[len |-> 8 * Len(t), head |-> TableBytes(t), fill |-> <<>>] :
        t \in DatTables}
    \cup {[len |-> n * DAT_SECTOR_SIZE,
           head |-> TableBytes(t) \o Zeros(8), fill |-> <<>>] :
            t \in DatTables, n \in {1, 2}}
    \cup {[len |-> 12, head |-> PairBytes(<<1, 2>>) \o Zeros(4), fill |-> <<>>]}
    \cup {[len |-> 8 * SafetyLimit + k, head |-> <<>>,
           fill |-> PairBytes(<<1, 1>>)] : k \in {0, 16}}

\* the chunk length: CHUNK_SIZE (5 MB) scaled down to a length the textures
\* of ScanPieces can straddle; like CHUNK_SIZE a multiple of 4
ChunkSize == 80



MaxLoopBlocks == 3

\* flag bytes: none, the three loop codes, and two other values
LoopFlags == {0, 1, 2, 3, 6, 7}

\* a block of silence with the flag byte given
FlaggedBlock(code) == <<0, code>> \o [i \in 1..14 |-> 0]

\* one to MaxLoopBlocks blocks, then nothing, one byte, or a header and a
\* flag byte of a block cut short
LoopData ==
    {Concat([k \in 1..n |-> FlaggedBlock(fs[k])]) \o tail :
        n \in 1..MaxLoopBlocks, fs \in [1..MaxLoopBlocks -> LoopFlags],
        tail \in {<<>>, <<0>>, <<0, 2>>, <<0, 3>>}}

---------------------------------------------------------------------------
(* Initial states: each harness starts with the others idle                *)

NoParse == TimErr("None", "")
NoValidate == ValidateErr("None", "")
NoRgba == [kind |-> "None", msg |-> "", rgba |-> <<>>]

IdleTim ==
    /\ timPc = "idle" /\ timData = <<>> /\ timBase = 0
    /\ timParsed = NoParse /\ timValidated = NoValidate
    /\ timRgba = NoRgba /\ timLegacyRgba = NoRgba
    /\ timPrefixLen = -1 /\ timPrefixResult = NoParse

\* extract not called yet
NotExtracted == [some |-> FALSE, bytes |-> <<-1>>]

IdleScan ==
    /\ scanPc = "idle" /\ scanData = <<>> /\ scanBase = 0
    /\ min_size = 0 /\ offset = 0 /\ assets = <<>>
    /\ scanExtract = NotExtracted

StartTim ==
    /\ timPc = "input"
    /\ timData \in TimBuffers
    /\ timBase \in 0..MaxBase
    /\ timParsed = NoParse /\ timValidated = NoValidate
    /\ timRgba = NoRgba /\ timLegacyRgba = NoRgba
    /\ timPrefixLen = -1 /\ timPrefixResult = NoParse

\* AssetScanner::new(data) or ::new(data).with_min_size(0), at scan_tim entry
StartScan ==
    /\ scanPc = "scan_tim"
    /\ scanData \in ScanRegions
    /\ scanBase \in 0..MaxBase
    /\ min_size \in {0, DEFAULT_MIN_SIZE}
    /\ offset = 0
    /\ assets = <<>>
    /\ scanExtract = NotExtracted

\* the same on a shorter region, 4-byte aligned or one byte off
StartScanFair ==
    /\ scanPc = "scan_tim"
    /\ scanData \in FairRegions
    /\ scanBase \in {0, 1}
    /\ min_size \in {0, DEFAULT_MIN_SIZE}
    /\ offset = 0
    /\ assets = <<>>
    /\ scanExtract = NotExtracted

IdleVag ==
    /\ vagPc = "idle" /\ vagData = <<>> /\ vagPos = 0 /\ vagChecked = FALSE
    /\ hist1 = 0 /\ hist2 = 0 /\ output = <<>>

\* decode_to_pcm entered on the sample data of a parsed Vag
StartVag ==
    /\ vagPc = "decoding"
    /\ vagData \in VagStreams
    /\ vagChecked \in BOOLEAN
    /\ vagPos = 0
    /\ hist1 = 0 /\ hist2 = 0
    /\ output = <<>>

NoPosition == CdromPosition(-1, -1, -1)
NoInput == [kind |-> "none", pos |-> NoPosition, num |-> -1]

IdlePos ==
    /\ posPc = "idle" /\ posInput = NoInput
    /\ position = NoPosition /\ sectorNumber = -1

StartPos ==
    /\ posPc = "ready" /\ posInput = NoInput
    /\ position = NoPosition /\ sectorNumber = -1

NoReader == [mmap |-> [len |-> 0, sectors |-> <<>>],
             root_dir_lba |-> 0, root_dir_size |-> 0]

NoRead == [start_lba |-> -1, size |-> -1, kind |-> "None", data |-> <<>>]

\* parse_directory_entries under way: its arguments, dir_data.len(), the
\* cursor and the entries so far; pc is "none", "loop", "Ok" or "ParseError"
NoListing == [pc |-> "none", dir_lba |-> 0, dir_size |-> 0, offset |-> 0,
              entries |-> <<>>]

IdleCd ==
    /\ cdPc = "idle" /\ mmap = NoReader.mmap
    /\ root_dir_lba = 0 /\ root_dir_size = 0
    /\ cdOpened = NoReader /\ dirCalls = <<>> /\ dataRead = NoRead
    /\ dirList = NoListing

\* CdRom::open has mapped the file; parse_pvd has not run yet
StartCd ==
    /\ cdPc = "mapped"
    /\ mmap \in CdImages
    /\ root_dir_lba = 0 /\ root_dir_size = 0
    /\ cdOpened = NoReader /\ dirCalls = <<>> /\ dataRead = NoRead
    /\ dirList = NoListing

NotCalled == -1

IdleEntry ==
    /\ entryPc = "idle" /\ start_sector = 0 /\ end_sector = 0
    /\ byteOffset = NotCalled /\ byteSize = NotCalled
    /\ byteRange = <<NotCalled, NotCalled>> /\ sectorCount = NotCalled

\* an entry as read from an archive table
StartEntry ==
    /\ entryPc = "entry"
    /\ start_sector \in SectorNumbers /\ end_sector \in SectorNumbers
    /\ byteOffset = NotCalled /\ byteSize = NotCalled
    /\ byteRange = <<NotCalled, NotCalled>> /\ sectorCount = NotCalled

IdleLzss ==
    /\ lzssPc = "idle" /\ lzssInput = <<>> /\ cursor = 0
    /\ window = <<>> /\ window_pos = 0
    /\ lzssFlags = 0 /\ flag_count = 0
    /\ lzssOutput = <<>> /\ total_written = 0
    /\ streamsDone = 0

\* LzssDecoder::standard() and the entry of decompress on a Cursor
StartLzss ==
    /\ lzssPc = "decoding"
    /\ lzssInput \in LzssStreams
    /\ cursor = 0
    /\ window = <<>> /\ window_pos = 0
    /\ lzssFlags = 0 /\ flag_count = 0
    /\ lzssOutput = <<>> /\ total_written = 0
    /\ streamsDone = 0

NoTmdResult == [kind |-> "None", msg |-> "", tmd |-> NoTmd]

\* the primitive loop of parse_object under way on one object: kind is
\* "none", "Next" (in the loop), "Ok" or the error; the cursor, the passes
\* left and the primitives so far
NoWalk == [kind |-> "none", msg |-> "", items |-> <<>>, prim_pos |-> 0,
           left |-> 0]

IdleTmd ==
    /\ tmdPc = "idle" /\ tmdData = <<>> /\ tmdParsed = NoTmdResult
    /\ primWalk = NoWalk

StartTmd ==
    /\ tmdPc = "input" /\ tmdData \in TmdInputs /\ tmdParsed = NoTmdResult
    /\ primWalk = NoWalk

XaNotParsed == [some |-> FALSE, header |-> <<-1>>]

IdleXa == xaPc = "idle" /\ xaData = <<>> /\ xaParsed = XaNotParsed

StartXa == xaPc = "input" /\ xaData \in XaInputs /\ xaParsed = XaNotParsed

NoArchive == [len |-> 0, head |-> <<>>, fill |-> <<>>]

IdleDat ==
    /\ datPc = "idle" /\ datData = NoArchive /\ datOffset = 0
    /\ datEntries = <<>> /\ table_size = 0 /\ datExtract = NoExtract

StartDat ==
    /\ datPc = "input" /\ datData \in DatArchives /\ datOffset = 0
    /\ datEntries = <<>> /\ table_size = 0 /\ datExtract = NoExtract

IdleChunk ==
    /\ chunkPc = "idle" /\ fileData = <<>> /\ chunkBase = 0
    /\ file_offset = 0 /\ all_assets = <<>>

\* the file PROT.DAT of the image, before the chunk loop
StartChunk ==
    /\ chunkPc = "chunks" /\ fileData \in ScanRegions
    /\ chunkBase \in 0..MaxBase
    /\ file_offset = 0 /\ all_assets = <<>>

NoColor == <<-1, -1, -1, -1>>

IdleColor == colorPc = "idle" /\ colorIn = 0 /\ colorOut = NoColor

\* every u16 colour value, from a pixel or from a palette entry
StartColor == colorPc = "input" /\ colorIn \in 0..65535 /\ colorOut = NoColor

IdleLoop ==
    /\ loopPc = "idle" /\ loopData = <<>>
    /\ loop_start = OptNone /\ loop_end = OptNone

StartLoop ==
    /\ loopPc = "input" /\ loopData \in LoopData
    /\ loop_start = OptNone /\ loop_end = OptNone

IdleButTim == IdleScan /\ IdleVag /\ IdlePos /\ IdleCd /\ IdleEntry
    /\ IdleLzss /\ IdleTmd /\ IdleXa /\ IdleDat /\ IdleChunk /\ IdleColor
    /\ IdleLoop
IdleButScan == IdleTim /\ IdleVag /\ IdlePos /\ IdleCd /\ IdleEntry
    /\ IdleLzss /\ IdleTmd /\ IdleXa /\ IdleDat /\ IdleChunk /\ IdleColor
    /\ IdleLoop
IdleButVag == IdleTim /\ IdleScan /\ IdlePos /\ IdleCd /\ IdleEntry
    /\ IdleLzss /\ IdleTmd /\ IdleXa /\ IdleDat /\ IdleChunk /\ IdleColor
    /\ IdleLoop
IdleButPos == IdleTim /\ IdleScan /\ IdleVag /\ IdleCd /\ IdleEntry
    /\ IdleLzss /\ IdleTmd /\ IdleXa /\ IdleDat /\ IdleChunk /\ IdleColor
    /\ IdleLoop
IdleButCd == IdleTim /\ IdleScan /\ IdleVag /\ IdlePos /\ IdleEntry
    /\ IdleLzss /\ IdleTmd /\ IdleXa /\ IdleDat /\ IdleChunk /\ IdleColor
    /\ IdleLoop
IdleButEntry == IdleTim /\ IdleScan /\ IdleVag /\ IdlePos /\ IdleCd
    /\ IdleLzss /\ IdleTmd /\ IdleXa /\ IdleDat /\ IdleChunk /\ IdleColor
    /\ IdleLoop
IdleButLzss == IdleTim /\ IdleScan /\ IdleVag /\ IdlePos /\ IdleCd
    /\ IdleEntry /\ IdleTmd /\ IdleXa /\ IdleDat /\ IdleChunk /\ IdleColor
    /\ IdleLoop
IdleButTmd == IdleTim /\ IdleScan /\ IdleVag /\ IdlePos /\ IdleCd /\ IdleEntry
    /\ IdleLzss /\ IdleXa /\ IdleDat /\ IdleChunk /\ IdleColor /\ IdleLoop
IdleButXa == IdleTim /\ IdleScan /\ IdleVag /\ IdlePos /\ IdleCd /\ IdleEntry
    /\ IdleLzss /\ IdleTmd /\ IdleDat /\ IdleChunk /\ IdleColor /\ IdleLoop
IdleButDat == IdleTim /\ IdleScan /\ IdleVag /\ IdlePos /\ IdleCd /\ IdleEntry
    /\ IdleLzss /\ IdleTmd /\ IdleXa /\ IdleChunk /\ IdleColor /\ IdleLoop
IdleButChunk == IdleTim /\ IdleScan /\ IdleVag /\ IdlePos /\ IdleCd
    /\ IdleEntry /\ IdleLzss /\ IdleTmd /\ IdleXa /\ IdleDat /\ IdleColor
    /\ IdleLoop
IdleButColor == IdleTim /\ IdleScan /\ IdleVag /\ IdlePos /\ IdleCd
    /\ IdleEntry /\ IdleLzss /\ IdleTmd /\ IdleXa /\ IdleDat /\ IdleChunk
    /\ IdleLoop
IdleButLoop == IdleTim /\ IdleScan /\ IdleVag /\ IdlePos /\ IdleCd
    /\ IdleEntry /\ IdleLzss /\ IdleTmd /\ IdleXa /\ IdleDat /\ IdleChunk
    /\ IdleColor

InitTim == StartTim /\ IdleButTim
InitScan == StartScan /\ IdleButScan
InitScanFair == StartScanFair /\ IdleButScan
InitVag == StartVag /\ IdleButVag
InitPos == StartPos /\ IdleButPos
InitCd == StartCd /\ IdleButCd
InitEntry == StartEntry /\ IdleButEntry
InitLzss == StartLzss /\ IdleButLzss
InitTmd == StartTmd /\ IdleButTmd
InitXa == StartXa /\ IdleButXa
InitDat == StartDat /\ IdleButDat
InitChunk == StartChunk /\ IdleButChunk
InitColor == StartColor /\ IdleButColor
InitLoop == StartLoop /\ IdleButLoop

---------------------------------------------------------------------------
(* Actions of the texture codec                                            *)

TimParseStep ==
    /\ timPc = "input"
    /\ timParsed' = TimParse(timData, timBase)
    /\ timPc' = "parsed"
    /\ UNCHANGED <<timData, timBase, timValidated, timRgba, timLegacyRgba,
                   timPrefixLen, timPrefixResult>>
    /\ UNCHANGED restTim

TimValidateStep ==
    /\ timPc = "parsed"
    /\ timValidated' = TimValidate(timData, timBase)
    /\ timPc' = "validated"
    /\ UNCHANGED <<timData, timBase, timParsed, timRgba, timLegacyRgba,
                   timPrefixLen, timPrefixResult>>
    /\ UNCHANGED restTim

TimToRgba8Step ==
    /\ timPc = "parsed"
    /\ timParsed.kind = "Ok"
    /\ timRgba' = ToRgba8(timParsed.tim)
    /\ timPc' = "converted"
    /\ UNCHANGED <<timData, timBase, timParsed, timValidated, timLegacyRgba,
                   timPrefixLen, timPrefixResult>>
    /\ UNCHANGED restTim

\* the 16-bit conversion of the older codec on the same parsed texture
TimLegacyToRgba8Step ==
    /\ timPc = "parsed"
    /\ timParsed.kind = "Ok"
    /\ timParsed.tim.pixel_mode = "Direct16Bit"
    /\ timLegacyRgba' = LegacyConvert16BitToRgba8(timParsed.tim)
    /\ timPc' = "legacyConverted"
    /\ UNCHANGED <<timData, timBase, timParsed, timValidated, timRgba,
                   timPrefixLen, timPrefixResult>>
    /\ UNCHANGED restTim

\* Tim::parse on the first k bytes of a buffer it accepted
TimParsePrefixStep ==
    /\ timPc = "parsed"
    /\ timParsed.kind = "Ok"
    /\ \E k \in 0..(Len(timData) - 1) :
        /\ timPrefixLen' = k
        /\ timPrefixResult' = TimParse(SubSeq(timData, 1, k), timBase)
    /\ timPc' = "prefix"
    /\ UNCHANGED <<timData, timBase, timParsed, timValidated, timRgba,
                   timLegacyRgba>>
    /\ UNCHANGED restTim

NextTim ==
    \/ TimParseStep
    \/ TimValidateStep
    \/ TimToRgba8Step
    \/ TimLegacyToRgba8Step
    \/ TimParsePrefixStep

---------------------------------------------------------------------------
(* Actions of the scanner                                                  *)

ScanTimStep ==
    /\ scanPc = "scan_tim"
    /\ offset + 12 <= Len(scanData)
    /\ LET r == ScanTimIteration(scanData, scanBase, min_size, offset, assets)
       IN /\ offset' = r.offset
          /\ assets' = r.assets
          /\ scanPc' = IF r.panicked THEN "panicked" ELSE "scan_tim"
    /\ UNCHANGED <<scanData, scanBase, min_size, scanExtract>>
    /\ UNCHANGED restScan

\* the loop ends; scan() sorts what scan_tim found and returns it
ScanReturn ==
    /\ scanPc = "scan_tim"
    /\ ~(offset + 12 <= Len(scanData))
    /\ assets' = SortByOffset(assets)
    /\ scanPc' = "done"
    /\ UNCHANGED <<scanData, scanBase, min_size, offset, scanExtract>>
    /\ UNCHANGED restScan

\* extract on one of the assets the scan returned
ExtractStep ==
    /\ scanPc = "done"
    /\ \E i \in 1..Len(assets) : scanExtract' = Extract(scanData, assets[i])
    /\ scanPc' = "extracted"
    /\ UNCHANGED <<scanData, scanBase, min_size, offset, assets>>
    /\ UNCHANGED restScan

NextScan == ScanTimStep \/ ScanReturn \/ ExtractStep

---------------------------------------------------------------------------
(* Actions of the sample decoder                                           *)

\* the next chunk of self.data.chunks(16)
VagDecodeStep ==
    /\ vagPc = "decoding"
    /\ vagPos < Len(vagData)
    /\ LET block == SubSeq(vagData, vagPos + 1, Min(vagPos + 16, Len(vagData)))
           r == DecodeBlock(block, hist1, hist2, output, vagChecked)
       IN /\ vagPc' = r.pc
          /\ output' = r.out
          /\ hist1' = r.hist1
          /\ hist2' = r.hist2
    /\ vagPos' = vagPos + 16
    /\ UNCHANGED <<vagData, vagChecked>>
    /\ UNCHANGED restVag

\* the chunks are used up: decode_to_pcm returns output
VagReturn ==
    /\ vagPc = "decoding"
    /\ vagPos >= Len(vagData)
    /\ vagPc' = "done"
    /\ UNCHANGED <<vagData, vagPos, vagChecked, hist1, hist2, output>>
    /\ UNCHANGED restVag

NextVag == VagDecodeStep \/ VagReturn

---------------------------------------------------------------------------
(* Actions of the disc addresses                                           *)

\* to_sector_number on a given position, or on the one just converted
ToSectorNumberStep ==
    /\ \/ /\ posPc = "ready"
          /\ \E p \in PositionInputs :
                /\ posInput' = [kind |-> "position", pos |-> p, num |-> -1]
                /\ position' = p
                /\ sectorNumber' = ToSectorNumber(p)
          /\ posPc' = "sector"
       \/ /\ posPc = "position"
          /\ sectorNumber' = ToSectorNumber(position)
          /\ posPc' = "done"
          /\ UNCHANGED <<posInput, position>>
    /\ UNCHANGED restPos

\* from_sector_number on a given number, or on the one just converted
FromSectorNumberStep ==
    /\ \/ /\ posPc = "ready"
          /\ \E n \in SectorInputs :
                /\ posInput' = [kind |-> "sector", pos |-> NoPosition, num |-> n]
                /\ sectorNumber' = n
                /\ position' = FromSectorNumber(n)
          /\ posPc' = "position"
       \/ /\ posPc = "sector"
          /\ position' = FromSectorNumber(sectorNumber)
          /\ posPc' = "done"
          /\ UNCHANGED <<posInput, sectorNumber>>
    /\ UNCHANGED restPos

NextPos == ToSectorNumberStep \/ FromSectorNumberStep

---------------------------------------------------------------------------
(* Actions of the disc image reader                                        *)

CdSelf == [mmap |-> mmap, root_dir_lba |-> root_dir_lba,
           root_dir_size |-> root_dir_size]

\* CdRom::open: parse_pvd, then Ok(cdrom) or the error
CdOpenStep ==
    /\ cdPc = "mapped"
    /\ LET r == ParsePvd(CdSelf)
       IN /\ cdPc' = IF r.kind = "Ok" THEN "open" ELSE "failed"
          /\ root_dir_lba' = r.self.root_dir_lba
          /\ root_dir_size' = r.self.root_dir_size
          /\ cdOpened' = IF r.kind = "Ok" THEN r.self ELSE cdOpened
    /\ UNCHANGED <<mmap, dirCalls, dataRead, dirList>>
    /\ UNCHANGED restCd

\* one call of read_dir; dirCalls keeps what each call was given and returned
ReadDirStep ==
    /\ cdPc = "open"
    /\ dataRead = NoRead /\ dirList = NoListing
    /\ Len(dirCalls) < MaxCalls
    /\ \E path \in DirPaths :
          LET r == ReadDir(CdSelf, path)
          IN /\ dirCalls' = Append(dirCalls, [path |-> path, result |-> r.result])
             /\ mmap' = r.self.mmap
             /\ root_dir_lba' = r.self.root_dir_lba
             /\ root_dir_size' = r.self.root_dir_size
    /\ UNCHANGED <<cdPc, cdOpened, dataRead, dirList>>
    /\ UNCHANGED restCd

\* read_data on an extent, as read_file and the directory listing call it
ReadDataStep ==
    /\ cdPc = "open"
    /\ dataRead = NoRead /\ dirCalls = <<>> /\ dirList = NoListing
    /\ \E start_lba \in ReadLbas, size \in ReadSizes :
          LET r == ReadDataLoop(CdSelf, start_lba, size, 0, <<>>)
          IN dataRead' = [start_lba |-> start_lba, size |-> size,
                          kind |-> r.kind, data |-> r.data]
    /\ UNCHANGED <<cdPc, mmap, root_dir_lba, root_dir_size, cdOpened, dirCalls,
                   dirList>>
    /\ UNCHANGED restCd

\* parse_directory_entries entered on an extent: read_data, then the loop
ListDirectoryStep ==
    /\ cdPc = "open"
    /\ dataRead = NoRead /\ dirCalls = <<>> /\ dirList = NoListing
    /\ \E ext \in DirExtents :
          dirList' = [pc |-> IF ReadData(CdSelf, ext[1], ext[2]).kind = "Ok"
                            THEN "loop" ELSE "ParseError",
                      dir_lba |-> ext[1], dir_size |-> ext[2], offset |-> 0,
                      entries |-> <<>>]
    /\ UNCHANGED <<cdPc, mmap, root_dir_lba, root_dir_size, cdOpened, dirCalls,
                   dataRead>>
    /\ UNCHANGED restCd

\* one pass of the loop of parse_directory_entries, or its leaving the loop
\* with Ok(entries)
ParseDirectoryIterationStep ==
    /\ cdPc = "open"
    /\ dirList.pc = "loop"
    /\ LET st == ParseDirectoryIteration(CdSelf, dirList.dir_lba,
                                         dirList.dir_size, dirList.offset,
                                         dirList.entries)
       IN dirList' = [dirList EXCEPT !.pc = IF st.done THEN "Ok" ELSE "loop",
                                     !.offset = st.offset,
                                     !.entries = st.entries]
    /\ UNCHANGED <<cdPc, mmap, root_dir_lba, root_dir_size, cdOpened, dirCalls,
                   dataRead>>
    /\ UNCHANGED restCd

NextCd ==
    \/ CdOpenStep \/ ReadDirStep \/ ReadDataStep
    \/ ListDirectoryStep \/ ParseDirectoryIterationStep

---------------------------------------------------------------------------
(* Actions of the archive entries                                          *)

EntrySelf == DatEntry(start_sector, end_sector)

ByteOffsetStep ==
    /\ entryPc = "entry" /\ byteOffset = NotCalled
    /\ byteOffset' = ByteOffset(EntrySelf)
    /\ UNCHANGED <<entryPc, start_sector, end_sector, byteSize, byteRange,
                   sectorCount>>
    /\ UNCHANGED restEntry

ByteSizeStep ==
    /\ entryPc = "entry" /\ byteSize = NotCalled
    /\ byteSize' = ByteSize(EntrySelf)
    /\ UNCHANGED <<entryPc, start_sector, end_sector, byteOffset, byteRange,
                   sectorCount>>
    /\ UNCHANGED restEntry

ByteRangeStep ==
    /\ entryPc = "entry" /\ byteRange = <<NotCalled, NotCalled>>
    /\ byteRange' = ByteRange(EntrySelf)
    /\ UNCHANGED <<entryPc, start_sector, end_sector, byteOffset, byteSize,
                   sectorCount>>
    /\ UNCHANGED restEntry

SectorCountStep ==
    /\ entryPc = "entry" /\ sectorCount = NotCalled
    /\ sectorCount' = SectorCount(EntrySelf)
    /\ UNCHANGED <<entryPc, start_sector, end_sector, byteOffset, byteSize,
                   byteRange>>
    /\ UNCHANGED restEntry

NextEntry == ByteOffsetStep \/ ByteSizeStep \/ ByteRangeStep \/ SectorCountStep

---------------------------------------------------------------------------
(* Actions of the decompressor                                             *)

LzssSelf ==
    [pc |-> lzssPc, input |-> lzssInput, cursor |-> cursor, window |-> window,
     window_pos |-> window_pos, flags |-> lzssFlags, flag_count |-> flag_count,
     output |-> lzssOutput, total_written |-> total_written]

\* one pass of the loop: a control byte if due, then one token, or the
\* end of input at a group boundary
LzssDecodeStep ==
    /\ lzssPc = "decoding"
    /\ LET d == LzssIteration(LzssSelf)
       IN /\ lzssPc' = d.pc
          /\ cursor' = d.cursor
          /\ window' = d.window
          /\ window_pos' = d.window_pos
          /\ lzssFlags' = d.flags
          /\ flag_count' = d.flag_count
          /\ lzssOutput' = d.output
          /\ total_written' = d.total_written
    /\ UNCHANGED <<lzssInput, streamsDone>>
    /\ UNCHANGED restLzss

\* decoder.reset() after a stream, decoded or failed
LzssResetStep ==
    /\ lzssPc \in {"done", "error"}
    /\ streamsDone < MaxResets
    /\ LET d == Reset(LzssSelf)
       IN /\ window' = d.window
          /\ window_pos' = d.window_pos
    /\ lzssPc' = "reset"
    /\ UNCHANGED <<lzssInput, cursor, lzssFlags, flag_count, lzssOutput,
                   total_written, streamsDone>>
    /\ UNCHANGED restLzss

\* decompress_buf of the next stream with the decoder that was reset
DecompressBufStep ==
    /\ lzssPc = "reset"
    /\ \E compressed \in LaterStreams :
          LET d == EnterDecompress(LzssSelf, compressed)
          IN /\ lzssInput' = d.input
             /\ cursor' = d.cursor
             /\ lzssFlags' = d.flags
             /\ flag_count' = d.flag_count
             /\ lzssOutput' = d.output
             /\ total_written' = d.total_written
             /\ lzssPc' = d.pc
    /\ streamsDone' = streamsDone + 1
    /\ UNCHANGED <<window, window_pos>>
    /\ UNCHANGED restLzss

NextLzss == LzssDecodeStep \/ LzssResetStep \/ DecompressBufStep

---------------------------------------------------------------------------
(* Actions of the model codec                                              *)

TmdParseStep ==
    /\ tmdPc = "input"
    /\ tmdParsed' = TmdParse(tmdData)
    /\ tmdPc' = "parsed"
    /\ UNCHANGED <<tmdData, primWalk>>
    /\ UNCHANGED restTmd

\* parse_object reaches its primitive loop for object i: the header and the
\* objects before i were accepted, and so were the vertices and normals of
\* object i
ParsePrimitivesEnterStep ==
    /\ tmdPc = "parsed"
    /\ Len(tmdData) >= 12
    /\ U32At(tmdData, 0) = TMD_MAGIC
    /\ \E i \in 0..(MaxObjects - 1) :
          /\ i < U32At(tmdData, 8)
          /\ U32At(tmdData, 8) <= MAX_OBJECTS
          /\ 12 + (i * 28) + 28 <= Len(tmdData)
          /\ ParseObjectTable(tmdData, i, 0, <<>>).kind = "Ok"
          /\ LET obj_entry == SubSeq(tmdData, 12 + (i * 28) + 1, 12 + (i * 28) + 28)
             IN /\ U32At(obj_entry, 4) <= MAX_VERTS
                /\ U32At(obj_entry, 12) <= MAX_NORMALS
                /\ ParseVertices(tmdData, U32At(obj_entry, 0),
                                 U32At(obj_entry, 4), 0, <<>>).kind = "Ok"
                /\ ParseNormals(tmdData, U32At(obj_entry, 8),
                                U32At(obj_entry, 12), 0, <<>>).kind = "Ok"
                /\ primWalk' = [kind |-> "Next", msg |-> "", items |-> <<>>,
                                prim_pos |-> U32At(obj_entry, 16),
                                left |-> U32At(obj_entry, 20)]
    /\ tmdPc' = "primitives"
    /\ UNCHANGED <<tmdData, tmdParsed>>
    /\ UNCHANGED restTmd

\* one pass of the primitive loop
ParsePrimitivesIterationStep ==
    /\ tmdPc = "primitives"
    /\ primWalk.kind = "Next"
    /\ primWalk' = ParsePrimitivesIteration(tmdData, primWalk.prim_pos,
                                            primWalk.left, primWalk.items)
    /\ UNCHANGED <<tmdPc, tmdData, tmdParsed>>
    /\ UNCHANGED restTmd

NextTmd ==
    \/ TmdParseStep
    \/ ParsePrimitivesEnterStep
    \/ ParsePrimitivesIterationStep

---------------------------------------------------------------------------
(* Actions of the sub-header codec                                         *)

XaSubHeaderParseStep ==
    /\ xaPc = "input"
    /\ xaParsed' = XaSubHeaderParse(xaData)
    /\ xaPc' = "parsed"
    /\ UNCHANGED xaData
    /\ UNCHANGED restXa

NextXa == XaSubHeaderParseStep

---------------------------------------------------------------------------
(* Actions of the DAT archive                                              *)

\* DatArchive::parse up to its loop
DatParseEnterStep ==
    /\ datPc = "input"
    /\ datPc' = IF datData.len < 16 THEN "ParseError" ELSE "loop"
    /\ UNCHANGED <<datData, datOffset, datEntries, table_size, datExtract>>
    /\ UNCHANGED restDat

\* one pass of the loop of DatArchive::parse
DatParseIterationStep ==
    /\ datPc = "loop"
    /\ LET st == DatParseIteration(datData, datOffset, datEntries)
       IN /\ datPc' = st.pc
          /\ datOffset' = st.offset
          /\ datEntries' = st.entries
          /\ table_size' = st.table_size
    /\ UNCHANGED <<datData, datExtract>>
    /\ UNCHANGED restDat

\* DatArchive::extract_file on the parsed archive
ExtractFileStep ==
    /\ datPc = "Ok" /\ datExtract = NoExtract
    /\ \E index \in {0, 1, 2, Len(datEntries)} :
          datExtract' = ExtractFile(datData, datEntries, index)
    /\ UNCHANGED <<datPc, datData, datOffset, datEntries, table_size>>
    /\ UNCHANGED restDat

NextDat == DatParseEnterStep \/ DatParseIterationStep \/ ExtractFileStep

---------------------------------------------------------------------------
(* Actions of the chunked scan                                             *)

\* one pass of the chunk loop: read_data of the chunk (CHUNK_SIZE is a whole
\* number of sectors, so the chunk is the file's bytes from file_offset on),
\* scan with min_size 64, rebase, advance
ChunkScanStep ==
    /\ chunkPc = "chunks"
    /\ file_offset < Len(fileData)
    /\ LET chunk_size == Min(ChunkSize, Len(fileData) - file_offset)
           chunk_data == SubSeq(fileData, file_offset + 1,
                                file_offset + chunk_size)
           chunk_assets == Scan(chunk_data, chunkBase, DEFAULT_MIN_SIZE)
       IN /\ all_assets' = all_assets \o Rebase(chunk_assets.assets, file_offset)
          /\ file_offset' = file_offset + chunk_size
          /\ chunkPc' = IF chunk_assets.panicked THEN "panicked" ELSE "chunks"
    /\ UNCHANGED <<fileData, chunkBase>>
    /\ UNCHANGED restChunk

\* the chunk loop ends
ChunkScanReturn ==
    /\ chunkPc = "chunks"
    /\ ~(file_offset < Len(fileData))
    /\ chunkPc' = "done"
    /\ UNCHANGED <<fileData, chunkBase, file_offset, all_assets>>
    /\ UNCHANGED restChunk

NextChunk == ChunkScanStep \/ ChunkScanReturn

---------------------------------------------------------------------------
(* Actions of the colour conversion                                        *)

Rgb555ToRgbaStep ==
    /\ colorPc = "input"
    /\ colorOut' = Rgb555ToRgba(colorIn)
    /\ colorPc' = "converted"
    /\ UNCHANGED colorIn
    /\ UNCHANGED restColor

NextColor == Rgb555ToRgbaStep

---------------------------------------------------------------------------
(* Actions of the loop point scan                                          *)

FindLoopPointsStep ==
    /\ loopPc = "input"
    /\ LET r == FindLoopPoints(loopData)
       IN loop_start' = r[1] /\ loop_end' = r[2]
    /\ loopPc' = "found"
    /\ UNCHANGED loopData
    /\ UNCHANGED restLoop

NextLoop == FindLoopPointsStep

SpecTim == InitTim /\ [][NextTim]_vars
SpecScan == InitScan /\ [][NextScan]_vars
\* scan runs its loop to the end: nothing else is scheduled beside it
SpecScanFair == InitScanFair /\ [][NextScan]_vars /\ WF_vars(NextScan)

SpecVag == InitVag /\ [][NextVag]_vars

SpecPos == InitPos /\ [][NextPos]_vars

SpecCd == InitCd /\ [][NextCd]_vars

SpecEntry == InitEntry /\ [][NextEntry]_vars

SpecLzss == InitLzss /\ [][NextLzss]_vars
SpecTmd == InitTmd /\ [][NextTmd]_vars
SpecXa == InitXa /\ [][NextXa]_vars
SpecDat == InitDat /\ [][NextDat]_vars
SpecChunk == InitChunk /\ [][NextChunk]_vars
SpecColor == InitColor /\ [][NextColor]_vars
SpecLoop == InitLoop /\ [][NextLoop]_vars

Init == InitTim \/ InitScan \/ InitVag \/ InitPos \/ InitCd \/ InitEntry
    \/ InitLzss \/ InitTmd \/ InitXa \/ InitDat \/ InitChunk \/ InitColor
    \/ InitLoop
Next == NextTim \/ NextScan \/ NextVag \/ NextPos \/ NextCd \/ NextEntry
    \/ NextLzss \/ NextTmd \/ NextXa \/ NextDat \/ NextChunk \/ NextColor
    \/ NextLoop
Spec == Init /\ [][Next]_vars

---------------------------------------------------------------------------
(* Properties                                                              *)

ConvertibleModes == {"Clut4Bit", "Clut8Bit", "Direct16Bit", "Direct24Bit"}
TruncationMessages ==
    {"TIM file too small", "TIM file truncated (CLUT header)",
     "TIM file truncated (CLUT data)", "TIM file truncated (pixel header)",
     "TIM file truncated (pixel data)"}

\* C1: the list AssetScanner::scan returns holds no two assets whose byte
\* ranges [offset, offset + size) overlap, for every region and min_size.
C1_NoOverlap ==
    scanPc = "done" =>
        \A i, j \in 1..Len(assets) :
            i < j =>
                \/ assets[i].offset + assets[i].size <= assets[j].offset
                \/ assets[j].offset + assets[j].size <= assets[i].offset

\* a scan that returned at least two assets, one of them found after a
\* texture whose pixel data holds another texture
C1_Witness ==
    /\ scanPc = "done"
    /\ Len(assets) >= 2
    /\ \E i \in 1..Len(assets) :
        assets[i].size = Len(NestedTim)

C3_RgbaLength ==
    (timPc = "converted" /\ timParsed.tim.pixel_mode \in ConvertibleModes) =>
        /\ timRgba.kind = "Ok"
        /\ Len(timRgba.rgba)
            = TimWidth(timParsed.tim) * TimHeight(timParsed.tim) * 4

\* the alpha bytes a 16-bit conversion gave the black pixels of a texture
BlackAlphaRule(tim, rgba) ==
    LET colors == U16Chunks(tim.pixels.data) IN
    /\ Len(rgba) = 4 * Len(colors)
    /\ \A k \in 1..Len(colors) :
        colors[k] % 32768 = 0 =>
            rgba[4 * k] = (IF colors[k] < 32768 THEN 0 ELSE 255)

\* C4: in 16-bit mode a pixel whose 15 colour bits are zero decodes to alpha
\* 0 when bit 0x8000 is clear and to alpha 255 when it is set, in the
\* current converter and in the older one.
C4_BlackAlpha ==
    /\ (timPc = "converted" /\ timParsed.tim.pixel_mode = "Direct16Bit") =>
            (timRgba.kind = "Ok" /\ BlackAlphaRule(timParsed.tim, timRgba.rgba))
    /\ timPc = "legacyConverted" =>
            (timLegacyRgba.kind = "Ok"
                /\ BlackAlphaRule(timParsed.tim, timLegacyRgba.rgba))

\* a converted 16-bit texture holding both 0x0000 and 0x8000 pixels
C4_Witness ==
    /\ timPc = "converted"
    /\ timParsed.tim.pixel_mode = "Direct16Bit"
    /\ \E k \in 1..Len(U16Chunks(timParsed.tim.pixels.data)) :
        U16Chunks(timParsed.tim.pixels.data)[k] = 0
    /\ \E k \in 1..Len(U16Chunks(timParsed.tim.pixels.data)) :
        U16Chunks(timParsed.tim.pixels.data)[k] = 32768

\* C5 as stated: Tim::parse on every proper prefix of an accepted buffer
\* returns a too-small / truncated error.
C5_EveryPrefixFails ==
    timPc = "prefix" =>
        /\ timPrefixResult.kind = "InvalidFormat"
        /\ timPrefixResult.msg \in TruncationMessages

\* C5 amended: Tim::parse on every prefix of an accepted buffer that is
\* shorter than the texture itself (its data_size() bytes: header, palette
\* block and pixel block) returns a too-small / truncated error and indexes
\* nothing past the prefix.
C5_TruncatedFails ==
    (timPc = "prefix" /\ timPrefixLen < TimDataSize(timParsed.tim)) =>
        /\ timPrefixResult.kind = "InvalidFormat"
        /\ timPrefixResult.msg \in TruncationMessages

\* a palette texture cut inside its pixel data
C5_Witness ==
    /\ timPc = "prefix"
    /\ timParsed.tim.clut.present
    /\ Len(timParsed.tim.pixels.data) > 0
    /\ timPrefixLen < TimDataSize(timParsed.tim)
    /\ timPrefixLen > TimDataSize(timParsed.tim) - Len(timParsed.tim.pixels.data)

\* where in output the samples of block k (0-based) start: 28 for each
\* earlier block whose filter selector is one of the five filters
VagOutStart(k) ==
    28 * Cardinality({j \in 0..(k - 1) : vagData[16 * j + 1] % 16 < Len(FILTERS)})

VagBlocksDone == Min(vagPos, Len(vagData)) \div 16

\* block k has filter selector 0, a shift in 0..12 and 28 zero data nibbles
SilentFilter0(k) ==
    /\ vagData[16 * k + 1] % 16 = 0
    /\ vagData[16 * k + 1] \div 16 <= 12
    /\ \A i \in 3..16 : vagData[16 * k + i] = 0

\* C6: decode_to_pcm emits 28 zero samples for every block with filter
\* selector 0, shift 0..12 and all-zero data nibbles, whatever was decoded
\* before it.
C6_SilenceStaysSilent ==
    vagPc \in {"decoding", "done"} =>
        \A k \in 0..(VagBlocksDone - 1) :
            SilentFilter0(k) =>
                /\ Len(output) >= VagOutStart(k) + 28
                /\ \A i \in 1..28 : output[VagOutStart(k) + i] = 0

\* a silent filter-0 block decoded with a non-zero history behind it
C6_Witness ==
    /\ vagPc = "done"
    /\ VagBlocksDone = 2
    /\ SilentFilter0(1)
    /\ vagData[17] \div 16 = 12
    /\ output[27] # 0 /\ output[28] # 0

\* C7: a position with minute 0..99, second 0..59 and sector 0..74 survives
\* to_sector_number followed by from_sector_number, and a sector number in
\* 0..449999 survives from_sector_number followed by to_sector_number.
C7_RoundTrip ==
    posPc = "done" =>
        /\ (posInput.kind = "position" /\ InRange(posInput.pos))
              => position = posInput.pos
        /\ (posInput.kind = "sector" /\ posInput.num \in 0..MaxSectorNumber)
              => sectorNumber = posInput.num

\* the last position of the range has gone to its number and come back
C7_Witness ==
    /\ posPc = "done"
    /\ posInput.kind = "position"
    /\ posInput.pos = CdromPosition(MaxMinutes, MaxSeconds, MaxSectors)
    /\ sectorNumber = 449999
    /\ position = posInput.pos

C9_EntryArithmetic ==
    /\ byteOffset # NotCalled => byteOffset = start_sector * 2048
    /\ byteSize # NotCalled =>
          byteSize = IF end_sector > start_sector
                     THEN (end_sector - start_sector) * 2048 ELSE 0
    /\ sectorCount # NotCalled =>
          sectorCount = IF end_sector > start_sector
                        THEN end_sector - start_sector ELSE 0
    /\ (start_sector = 3 /\ end_sector = 8) =>
          /\ byteOffset \in {NotCalled, 6144}
          /\ byteSize \in {NotCalled, 10240}

\* the entry (3, 8) with offset, size and sector count all taken
C9_Witness ==
    /\ start_sector = 3 /\ end_sector = 8
    /\ byteOffset = 6144 /\ byteSize = 10240 /\ sectorCount = 5

\* an entry that ends before it starts, with its size and count taken
C9_WitnessEmpty ==
    /\ start_sector = 8 /\ end_sector = 3
    /\ byteSize = 0 /\ sectorCount = 0

\* the stream is whole groups of a control byte 0xFF and eight bytes
AllLiteralGroups(in) ==
    /\ Len(in) % 9 = 0
    /\ \A k \in 0..((Len(in) \div 9) - 1) : in[(9 * k) + 1] = 255

\* the bytes of such a stream that are not control bytes, in order
LiteralsOf(in) == SelectSeq([i \in 1..Len(in) |-> <<i, in[i]>>],
                            LAMBDA p : p[1] % 9 # 1)

\* C10: a stream of complete all-literal groups (0xFF and eight bytes each)
\* given to a fresh decoder decompresses without error to exactly its
\* literal bytes in order, and the count returned is the number of literals.
C10_LiteralGroups ==
    AllLiteralGroups(lzssInput) =>
        /\ lzssPc # "error"
        /\ lzssPc = "done" =>
              /\ Len(lzssOutput) = Len(LiteralsOf(lzssInput))
              /\ \A i \in 1..Len(lzssOutput) :
                    lzssOutput[i] = LiteralsOf(lzssInput)[i][2]
              /\ total_written = 8 * (Len(lzssInput) \div 9)

\* two groups decoded: sixteen literals out, the first of them "Hello!!!"
C10_Witness ==
    /\ lzssPc = "done"
    /\ AllLiteralGroups(lzssInput)
    /\ Len(lzssInput) = 18
    /\ total_written = 16
    /\ SubSeq(lzssOutput, 1, 8) = <<72, 101, 108, 108, 111, 33, 33, 33>>
    /\ SubSeq(lzssOutput, 9, 16) = <<1, 2, 3, 4, 5, 6, 7, 8>>

\* the header of the buffer declares no objects
TmdDeclaresNoObjects == Len(tmdData) >= 12 /\ U32At(tmdData, 8) = 0

\* entry i of the object table lies in the buffer and its vertex or normal
\* run, 8 bytes a record, ends past the end of the buffer
TmdRunOverruns(i) ==
    LET e == 12 + (28 * i) IN
    /\ e + 28 <= Len(tmdData)
    /\ \/ /\ U32At(tmdData, e + 4) > 0
          /\ U32At(tmdData, e) + (8 * U32At(tmdData, e + 4)) > Len(tmdData)
       \/ /\ U32At(tmdData, e + 12) > 0
          /\ U32At(tmdData, e + 8) + (8 * U32At(tmdData, e + 12)) > Len(tmdData)

TmdSomeRunOverruns ==
    /\ Len(tmdData) >= 12
    /\ U32At(tmdData, 8) <= MAX_OBJECTS
    /\ \E i \in 0..(U32At(tmdData, 8) - 1) : TmdRunOverruns(i)

\* C11: Tmd::parse returns an error, without an index past the buffer, when
\* the header declares 0 objects and when the vertex or normal run of an
\* object-table entry would put an 8-byte record past the end of the buffer.
C11_TmdRejects ==
    (tmdPc = "parsed" /\ (TmdDeclaresNoObjects \/ TmdSomeRunOverruns))
        => tmdParsed.kind = "ParseError"

\* the second of two entries has a vertex run that overruns; the first is
\* sound and was parsed before the error
C11_Witness ==
    /\ tmdPc = "parsed"
    /\ Len(tmdData) >= 12 /\ U32At(tmdData, 8) = 2
    /\ ~TmdRunOverruns(0) /\ TmdRunOverruns(1)
    /\ tmdParsed.kind = "ParseError"
    /\ tmdParsed.msg = "Vertex out of bounds"

\* a header declaring no objects was rejected
C11_WitnessZero ==
    /\ tmdPc = "parsed" /\ TmdDeclaresNoObjects
    /\ tmdParsed.msg = "TMD has zero objects"

\* the data (0x08), audio (0x04) and video (0x02) bits set in a sub-mode
XaMediaBits(sm) == {m \in {2, 4, 8} : (sm \div m) % 2 = 1}

\* the four conditions of a well-formed sub-header
XaWellFormed(data) ==
    /\ Len(data) >= 8
    /\ SubSeq(data, 1, 4) = SubSeq(data, 5, 8)
    /\ Cardinality(XaMediaBits(data[3])) <= 1
    /\ \A m \in {2, 8, 32} : (data[4] \div m) % 2 = 0

\* C12: XaSubHeader::parse returns a header exactly when the input has 8
\* bytes or more, bytes 0..3 equal bytes 4..7, at most one of the data,
\* audio and video bits is set and the reserved coding bits (0x2A) are 0;
\* the header then holds bytes 0..3, and otherwise nothing is returned.
C12_XaParseIff ==
    xaPc = "parsed" =>
        /\ xaParsed.some <=> XaWellFormed(xaData)
        /\ xaParsed.some =>
              /\ xaParsed.header.file_number = xaData[1]
              /\ xaParsed.header.channel = xaData[2]
              /\ xaParsed.header.sub_mode = xaData[3]
              /\ xaParsed.header.coding_info = xaData[4]
        /\ ~xaParsed.some => xaParsed = XaNone

\* a real-time form-2 audio header (sub-mode 0x64, coding 0x01) accepted
C12_Witness ==
    /\ xaPc = "parsed"
    /\ xaData = <<1, 31, 100, 1, 1, 31, 100, 1>>
    /\ xaParsed.some
    /\ xaParsed.header.sub_mode = 100

\* audio and video together (sub-mode 0x06) with matching halves refused
C12_WitnessRefused ==
    /\ xaPc = "parsed"
    /\ xaData = <<1, 31, 6, 1, 1, 31, 6, 1>>
    /\ ~xaParsed.some

\* the sectors an extent of size bytes at start_lba needs
NeededSectors(start_lba, size) ==
    {start_lba + i : i \in 0..(((size + 2047) \div 2048) - 1)}

\* sector lba lies whole in the mapped image
SectorMapped(lba) == (lba + 1) * 2352 <= mmap.len

\* C13: an extent read of n bytes from sector s returns exactly n bytes,
\* byte k of them being byte 24 + k mod 2048 of physical sector s + k div
\* 2048 (the data windows concatenated, the last one trimmed); when a needed
\* sector is not in the mapped image the read is an error with no data.
C13_ExtentRead ==
    dataRead # NoRead =>
        IF \A lba \in NeededSectors(dataRead.start_lba, dataRead.size) :
               SectorMapped(lba)
        THEN /\ dataRead.kind = "Ok"
             /\ Len(dataRead.data) = dataRead.size
             /\ \A k \in 0..(dataRead.size - 1) :
                   dataRead.data[k + 1] =
                       MmapAt(mmap, ((dataRead.start_lba + (k \div 2048)) * 2352)
                                        + 24 + (k % 2048))
        ELSE dataRead.kind = "ParseError" /\ dataRead.data = <<>>

\* 2049 bytes from the root directory: its window and one byte of the next
C13_Witness ==
    /\ dataRead.kind = "Ok"
    /\ dataRead.start_lba = 18 /\ dataRead.size = 2049
    /\ Len(dataRead.data) = 2049
    /\ dataRead.data[1] = 34
    /\ dataRead.data[2049] # 0

\* the second sector of the extent is cut short in the image: an error
C13_WitnessError ==
    /\ dataRead.kind = "ParseError"
    /\ dataRead.start_lba = 18 /\ dataRead.size = 2049
    /\ mmap.len = (19 * 2352) + 100

---------------------------------------------------------------------------
(* CdRom::parse_directory_entries: the cursor                              *)

\* the next multiple of 2048 above o
NextSectorBoundary(o) ==
    CHOOSE b \in {k * DATA_SIZE : k \in 1..3} : b > o /\ b - DATA_SIZE <= o

\* the record-length byte under the cursor of the listing under way
RecordLenAtCursor == DataAt(CdSelf, dirList.dir_lba, dirList.offset)

\* the listing is in its loop with the cursor inside the directory's bytes
ListingAtRecord == dirList.pc = "loop" /\ dirList.offset < dirList.dir_size

\* the declared length of the record under the cursor overruns the region
RecordOverruns == dirList.offset + RecordLenAtCursor > dirList.dir_size

C14_WitnessStop ==
    /\ dirList.pc = "Ok" /\ dirList.dir_size = DATA_SIZE
    /\ dirList.offset = DATA_SIZE /\ dirList.entries # <<>>

---------------------------------------------------------------------------
(* CdRom::parse_directory_entries: malformed records                       *)

\* the record under the cursor is shorter than the 33-byte fixed part
RecordTooShort == RecordLenAtCursor # 0 /\ RecordLenAtCursor < 33

\* the name length of the record under the cursor overruns the record
NameOverrunsRecord ==
    /\ RecordLenAtCursor >= 33
    /\ 33 + DataAt(CdSelf, dirList.dir_lba, dirList.offset + 32)
         > RecordLenAtCursor

\* the record under the cursor is malformed
MalformedRecord ==
    /\ ListingAtRecord /\ RecordLenAtCursor # 0
    /\ (RecordOverruns \/ RecordTooShort \/ NameOverrunsRecord)

\* C15: a malformed record (declared length overruns the region, record
\* shorter than 33 bytes, or name length overruns the record) ends the
\* listing successfully with exactly the entries parsed before it.
C15_MalformedEndsListing ==
    [][MalformedRecord =>
        (dirList'.pc = "Ok" /\ dirList'.entries = dirList.entries)]_vars

---------------------------------------------------------------------------
(* DatArchive::parse: the file table                                       *)

\* the pair under the cursor of the parse under way
PairAtCursor ==
    <<DatU32At(datData, datOffset), DatU32At(datData, datOffset + 4)>>

\* fewer than 8 bytes are left at the cursor
TableAtEndOfBuffer == datOffset + 8 > datData.len

\* the byte end of the pair under the cursor, start x 2048 + size
PairByteEnd ==
    LET p == PairAtCursor
    IN p[1] * 2048 + (IF p[2] > p[1] THEN (p[2] - p[1]) * 2048 ELSE 0)

\* a stop condition of the table holds at the cursor
TableStops ==
    \/ TableAtEndOfBuffer
    \/ PairByteEnd > 2 * datData.len
    \/ (datEntries # <<>> /\ PairAtCursor = <<0, 0>>)

\* C16 as stated: every stop condition, the entry cap among them, stops the
\* table and leaves parse successful with the pairs before it.
C16_StopsNeverFail ==
    [][datPc = "loop" =>
        IF TableStops \/ Len(datEntries) >= SafetyLimit
        THEN datPc' = "Ok" /\ datEntries' = datEntries
        ELSE datPc' = "loop"
             /\ datEntries' = Append(datEntries, DatEntry(PairAtCursor[1],
                                                          PairAtCursor[2]))]_vars

\* C16: DatArchive::parse reads 8-byte pairs from offset 0: a pair that meets
\* no stop condition is appended and the cursor moves on by 8; the first
\* stop condition (all-zero pair after at least one entry, byte end above
\* twice the buffer length, end of the buffer) ends the table with exactly
\* the pairs before it and parse succeeds if there is at least one, and
\* fails if there is none; parse also fails on a buffer shorter than 16
\* bytes and when a 10001st pair is appended.
C16_TableEntries ==
    [][/\ datPc = "input" =>
            datPc' = (IF datData.len < 16 THEN "ParseError" ELSE "loop")
       /\ datPc = "loop" =>
            IF TableStops
            THEN IF datEntries = <<>>
                 THEN datPc' = "ParseError"
                 ELSE datPc' = "Ok" /\ datEntries' = datEntries
            ELSE IF Len(datEntries) = SafetyLimit
            THEN datPc' = "ParseError"
            ELSE /\ datPc' = "loop"
                 /\ datOffset' = datOffset + 8
                 /\ datEntries' = Append(datEntries,
                                         DatEntry(PairAtCursor[1],
                                                  PairAtCursor[2]))]_vars

\* a table of two pairs ended by an all-zero pair has been parsed
C16_Witness ==
    /\ datPc = "Ok" /\ datOffset = 16 /\ datData.len = 2 * DAT_SECTOR_SIZE
    /\ datEntries = <<DatEntry(0, 1), DatEntry(1, 2)>>
    /\ table_size = 16

\* parse has failed on the 10001st pair
C16_WitnessLimit ==
    datPc = "ParseError" /\ datOffset = 8 * (SafetyLimit + 1)

\* parse has failed with a first pair whose byte end is too large
C16_WitnessNoEntries ==
    /\ datPc = "ParseError" /\ datOffset = 0 /\ datData.len >= 16
    /\ PairAtCursor = <<1000, 1000>>

---------------------------------------------------------------------------
(* DatArchive::extract_file                                                *)

\* the archive bytes lo..hi - 1
ArchiveBytes(lo, hi) == [i \in 1..(hi - lo) |-> DatAt(datData, lo + i - 1)]

\* C17: extract_file(index) returns exactly the archive bytes
\* [start_sector x 2048, end_sector x 2048) of entry index when that range
\* lies inside the buffer, and an error when index is not a table entry or
\* the range ends past the buffer; for an entry whose end_sector is below
\* its start_sector it returns no byte or an error.
C17_ExtractFile ==
    datExtract # NoExtract =>
        LET index == datExtract.index IN
        IF index >= Len(datEntries) THEN datExtract.kind = "ParseError"
        ELSE LET lo == datEntries[index + 1].start_sector * 2048
                 hi == datEntries[index + 1].end_sector * 2048
             IN /\ (lo <= hi /\ hi <= datData.len) =>
                      /\ datExtract.kind = "Ok"
                      /\ datExtract.data = ArchiveBytes(lo, hi)
                /\ hi > datData.len => datExtract.kind = "ParseError"
                /\ hi < lo =>
                      \/ datExtract.kind = "ParseError"
                      \/ datExtract.kind = "Ok" /\ datExtract.data = <<>>

\* the second file, sector 1 of a two-sector archive, has been extracted
C17_Witness ==
    /\ datExtract.kind = "Ok" /\ datExtract.index = 1
    /\ datEntries[2] = DatEntry(1, 2)
    /\ Len(datExtract.data) = DAT_SECTOR_SIZE
    /\ datExtract.data[1] = 1

\* an entry that passed parse but ends behind the buffer is refused
C17_WitnessBeyond ==
    /\ datExtract.kind = "ParseError" /\ datExtract.index = 0
    /\ datEntries[1] = DatEntry(1, 2) /\ datData.len = DAT_SECTOR_SIZE

---------------------------------------------------------------------------
(* AssetScanner::scan_tim: the cursor                                      *)

\* the scanner is about to visit the offset under its cursor
ScanVisiting == scanPc = "scan_tim" /\ offset + 12 <= Len(scanData)

\* the four bytes at offset o of the region are the TIM magic 10 00 00 00
MagicAt(o) == SubSeq(scanData, o + 1, o + 4) = <<16, 0, 0, 0>>

\* what the fast validator says of the region from offset o on
ValidatedAt(o) ==
    TimValidate(SubSeq(scanData, o + 1, Len(scanData)), (scanBase + o) % 4)

\* the asset recorded for a validated texture at offset o
AssetAt(o) ==
    [offset |-> o, size |-> ValidatedAt(o).size,
     asset_type |-> [kind |-> "Tim", width |-> ValidatedAt(o).width,
                     height |-> ValidatedAt(o).height]]

C18_WitnessSmall ==
    /\ ScanVisiting /\ MagicAt(offset)
    /\ ValidatedAt(offset).kind = "Ok"
    /\ ValidatedAt(offset).size < min_size

---------------------------------------------------------------------------
(* Chunked scanning against one pass                                       *)

\* what one scan pass over the whole file reports
WholeFileAssets == Scan(fileData, chunkBase, DEFAULT_MIN_SIZE).assets

\* C19: scanning the file in chunks, the offsets of each chunk rebased by the
\* chunk's file offset, reports every asset one scan pass over the whole
\* file reports, also one that straddles a chunk boundary.
C19_ChunkedFindsAll ==
    chunkPc = "done" =>
        \A i \in 1..Len(WholeFileAssets) :
            \E j \in 1..Len(all_assets) : all_assets[j] = WholeFileAssets[i]

---------------------------------------------------------------------------
(* LzssDecoder::reset                                                      *)

\* what decompress_buf of the decoder in use has returned
LzssReturned ==
    IF lzssPc = "error" THEN [kind |-> "Err", output |-> <<>>]
    ELSE [kind |-> "Ok", output |-> lzssOutput]

\* C20: after LzssDecoder::reset the window is all zeros and the write
\* cursor is 0, and a stream decoded by a decoder that was used on earlier
\* streams and then reset gives exactly what a freshly constructed decoder
\* gives for that stream.
C20_ResetIsFresh ==
    /\ lzssPc = "reset" =>
          /\ \A i \in 0..(WINDOW_SIZE - 1) : WindowAt(window, i) = 0
          /\ window_pos = 0
    /\ (streamsDone >= 1 /\ lzssPc \in {"done", "error"}) =>
          LzssReturned = DecompressBuf(NewDecoder, lzssInput)

\* a decoder that was used on a stream and then reset has decoded a stream
\* that begins with a reference into the window
C20_Witness ==
    /\ streamsDone = 1 /\ lzssPc = "done"
    /\ lzssInput = <<254, 0, 0, 65, 66, 67, 68, 69, 70, 71>>
    /\ lzssOutput = <<0, 0, 0, 65, 66, 67, 68, 69, 70, 71>>

---------------------------------------------------------------------------
(* rgb555_to_rgba: channels and alpha                                      *)

\* the 5-bit channel k (0 red, 1 green, 2 blue) of a colour, shifted left by 3
Channel8(c, k) == ((c \div (32 ^ k)) % 32) * 8

\* the colour under conversion is black, its high bit apart
ColorIsBlack == colorIn % 32768 = 0

\* the high bit of the colour under conversion is set
ColorHighBit == colorIn >= 32768

\* C21 as stated: R, G, B are the 5-bit channels shifted left by 3; alpha is
\* 0 only for black with the high bit clear, 255 for any other colour with
\* the high bit clear, and the one semi-transparent value 254 whenever the
\* high bit is set, black included.
C21_HighBitAlwaysBlends ==
    colorPc = "converted" =>
        /\ colorOut[1] = Channel8(colorIn, 0)
        /\ colorOut[2] = Channel8(colorIn, 1)
        /\ colorOut[3] = Channel8(colorIn, 2)
        /\ colorOut[4] = (IF ColorHighBit THEN 254
                          ELSE IF ColorIsBlack THEN 0 ELSE 255)

\* C21: for every 16-bit colour value R, G, B are the three 5-bit channels
\* each shifted left by 3; alpha is 0 only for black with the high bit
\* clear, 255 for any other colour with the high bit clear and for black
\* with the high bit set, and 254 for every other colour with the high bit
\* set.
C21_ColorRule ==
    colorPc = "converted" =>
        /\ colorOut[1] = Channel8(colorIn, 0)
        /\ colorOut[2] = Channel8(colorIn, 1)
        /\ colorOut[3] = Channel8(colorIn, 2)
        /\ colorOut[4] = (IF ColorHighBit
                          THEN (IF ColorIsBlack THEN 255 ELSE 254)
                          ELSE (IF ColorIsBlack THEN 0 ELSE 255))

\* a blended colour, 0xFC1F with the high bit set, has been converted
C21_Witness ==
    colorPc = "converted" /\ colorIn = 64543 /\ colorOut = <<248, 0, 248, 254>>

\* black with the high bit set has been converted
C21_WitnessBlack ==
    colorPc = "converted" /\ colorIn = 32768 /\ colorOut[4] = 255

---------------------------------------------------------------------------
(* Vag::find_loop_points                                                   *)

\* the blocks (from 0) of the data whose flag byte is one of the codes
BlocksFlagged(codes) ==
    {k \in 0..(ChunkCount(loopData) - 1) :
        Len(Chunk16(loopData, k)) >= 2 /\ Chunk16(loopData, k)[2] \in codes}

\* C22: loop_start is block_index x 28 of the first block whose flag byte
\* carries a loop-start code (0x02, 0x06) and loop_end is block_index x 28 of
\* the last block whose flag byte carries a loop-end code (0x03, 0x06); each
\* is absent when no block carries the code.
C22_FirstStartLastEnd ==
    loopPc = "found" =>
        LET starts == BlocksFlagged({2, 6})
            ends == BlocksFlagged({3, 6})
        IN /\ loop_start =
                (IF starts = {} THEN OptNone
                 ELSE OptSome(28 * (CHOOSE k \in starts :
                                        \A j \in starts : k <= j)))
           /\ loop_end =
                (IF ends = {} THEN OptNone
                 ELSE OptSome(28 * (CHOOSE k \in ends :
                                        \A j \in ends : k >= j)))

\* the last of a non-empty set of block indices
LastBlock(blocks) == CHOOSE k \in blocks : \A j \in blocks : k >= j

\* C22: loop_start is block_index x 28 of the last block whose flag byte is
\* a loop-start code (0x02, 0x06); loop_end comes from the last block whose
\* flag byte is a loop-end code: block_index x 28 for 0x03 and
\* (block_index + 1) x 28 for 0x06; each is absent when no block carries
\* the code.
C22_LoopPoints ==
    loopPc = "found" =>
        LET starts == BlocksFlagged({2, 6})
            ends == BlocksFlagged({3, 6})
        IN /\ loop_start =
                (IF starts = {} THEN OptNone
                 ELSE OptSome(28 * LastBlock(starts)))
           /\ loop_end =
                (IF ends = {} THEN OptNone
                 ELSE IF LastBlock(ends) \in BlocksFlagged({6})
                 THEN OptSome(28 * (LastBlock(ends) + 1))
                 ELSE OptSome(28 * LastBlock(ends)))

\* three blocks flagged 0x02, 0x02, 0x03: the start found is the second
\* block's, the end the third's
C22_Witness ==
    /\ loopPc = "found"
    /\ loopData = FlaggedBlock(2) \o FlaggedBlock(2) \o FlaggedBlock(3)
    /\ loop_start = OptSome(28) /\ loop_end = OptSome(56)

\* the input of decompress ran out: no byte is left behind the read cursor
InputExhausted == cursor >= Len(lzssInput)

\* C23: decompress terminates on every finite input and treats the end of
\* the input as the normal end of the stream: when the loop stops, at a
\* control byte or in the middle of a group of eight tokens, it stops with
\* the bytes decoded so far as its result and not with an error.
C23_ExhaustionEndsStream ==
    [][(lzssPc = "decoding" /\ lzssPc' # "decoding")
          => /\ InputExhausted'
             /\ lzssPc' = "done"
             /\ LzssReturned' = [kind |-> "Ok", output |-> lzssOutput]]_vars

\* the validator ran on a buffer whose header it could read: eight bytes,
\* aligned, with the TIM magic
FlagsJudged ==
    /\ timValidated # NoValidate
    /\ Len(timData) >= 8
    /\ Aligned4(timBase, 0)
    /\ U32At(timData, 0) = TIM_MAGIC

\* some bit of the flags word outside its low four bits is set
ReservedBitSet ==
    \E b \in 5..8 : \E k \in 0..7 :
        /\ (b > 5 \/ k >= 4)
        /\ BitOf(timData[b], k) = 1

\* the 3-bit pixel-mode field, and the palette bit, of the flags word
ModeField == timData[5] % 8
PaletteBit == BitOf(timData[5], 3) = 1

\* the pixel modes by number
ModeNames == <<"Clut4Bit", "Clut8Bit", "Direct16Bit", "Direct24Bit", "Mixed">>

\* where the pixel block starts: behind the header, and behind the palette
\* block when one is expected
PixelBlockAt ==
    IF PaletteBit THEN 8 + Max(12, U32At(timData, 8)) ELSE 8

\* the width in pixels of a pixel block word_width words wide
ModeWidth(mode, word_width) ==
    CASE mode = 0 -> (word_width * 4) % 65536
      [] mode = 1 -> (word_width * 2) % 65536
      [] mode = 3 -> ((word_width * 2) % 65536) \div 3
      [] OTHER -> word_width

\* C24: Tim::validate rejects every header whose flags word has a bit set
\* outside the low four and every header whose pixel-mode field is 5, 6 or
\* 7; the fields 0 to 4 are read as 4-bit indexed, 8-bit indexed, 16-bit
\* direct, 24-bit direct and mixed, and bit 3 alone decides whether a
\* palette block is expected in front of the pixel block.
C24_FlagsWord ==
    FlagsJudged =>
        /\ ReservedBitSet => timValidated.kind = "InvalidFormat"
        /\ ModeField \in {5, 6, 7} => timValidated.kind = "InvalidFormat"
        /\ timValidated.kind = "Ok" =>
              /\ ModeField \in 0..4
              /\ timValidated.size
                    = PixelBlockAt + U32At(timData, PixelBlockAt)
              /\ timValidated.width
                    = ModeWidth(ModeField, U16At(timData, PixelBlockAt + 8))
        /\ timParsed.kind = "Ok" =>
              /\ timParsed.tim.pixel_mode = ModeNames[ModeField + 1]
              /\ timParsed.tim.has_clut = PaletteBit

\* a mixed-mode texture with a palette block was accepted
C24_Witness ==
    /\ FlagsJudged
    /\ timValidated.kind = "Ok"
    /\ ModeField = 4
    /\ PaletteBit

\* a header with a reserved bit set above the low byte was rejected, and so
\* was one with pixel-mode field 7
C24_WitnessReserved ==
    /\ FlagsJudged
    /\ timValidated.kind = "InvalidFormat"
    /\ timData[7] = 1
    /\ ModeField = 0

C24_WitnessMode ==
    /\ FlagsJudged
    /\ timValidated.kind = "InvalidFormat"
    /\ ~ReservedBitSet
    /\ ModeField = 7

\* the flags the next token is read under, and the offset of its bytes: a
\* control byte is read first when the flags of the last one are used up
TokenFlags == IF flag_count = 0 THEN lzssInput[cursor + 1] ELSE lzssFlags
TokenAt == IF flag_count = 0 THEN cursor + 1 ELSE cursor

\* the decoder is about to read a back-reference whose two bytes are there
AtReference ==
    /\ lzssPc = "decoding"
    /\ ~(flag_count = 0 /\ cursor >= Len(lzssInput))
    /\ TokenFlags % 2 = 0
    /\ TokenAt + 2 <= Len(lzssInput)

\* the 12-bit offset and the 4-bit length field of that reference
RefOffset == (lzssInput[TokenAt + 1] * 16) + (lzssInput[TokenAt + 2] \div 16)
RefLengthField == lzssInput[TokenAt + 2] % 16

\* window w with byte b stored at position p
WindowWith(w, p, b) ==
    [i \in DOMAIN w \cup {p} |-> IF i = p THEN b ELSE w[i]]

\* count bytes read from the consecutive window positions o, o + 1, ...
\* (modulo the window size), each one appended at the write cursor wp
\* before the next is read
RECURSIVE ConsecutiveRun(_, _, _, _)
ConsecutiveRun(w, wp, o, count) ==
    IF count = 0 THEN <<>>
    ELSE LET b == WindowAt(w, o % WINDOW_SIZE)
         IN <<b>> \o ConsecutiveRun(WindowWith(w, wp, b),
                                    (wp + 1) % WINDOW_SIZE, o + 1, count - 1)

\* C25: a back-reference with offset o and length field n emits n + 3 bytes,
\* the window contents at the consecutive positions o, o + 1, ..., o + n + 2
\* (modulo 4096) read as the copy proceeds, and appends each emitted byte
\* to the window at the write cursor.
C25_ReferenceCopiesRun ==
    [][AtReference =>
          LET run == ConsecutiveRun(window, window_pos, RefOffset,
                                    RefLengthField + 3)
          IN /\ lzssOutput' = lzssOutput \o run
             /\ window_pos' = (window_pos + Len(run)) % WINDOW_SIZE
             /\ \A k \in 1..Len(run) :
                   WindowAt(window', (window_pos + k - 1) % WINDOW_SIZE)
                       = run[k]]_vars

\* C26: decode_to_pcm yields exactly 28 samples for each complete 16-byte
\* block of the sample data, whatever its filter selector nibble is: the
\* output it returns has 28 * floor(len / 16) samples.
C26_SamplesPerBlock ==
    /\ vagPc \in {"decoding", "done"} => Len(output) = 28 * VagBlocksDone
    /\ vagPc = "done" => Len(output) = 28 * (Len(vagData) \div 16)

\* block k has a filter selector the table knows, so its samples are
\* shifted by 12 - shift_factor
ShiftReached(k) == vagData[16 * k + 1] % 16 < Len(FILTERS)

\* C30: for every header byte (filter selector in the low nibble, shift in
\* the high nibble, each 0..15) decode_to_pcm computes 12 - shift without
\* unsigned underflow and shifts left by at most 12: no block makes the
\* decoder overflow or panic.
C30_ShiftNeverUnderflows ==
    /\ vagPc # "panicked"
    /\ \A k \in 0..(VagBlocksDone - 1) :
          ShiftReached(k) => 12 - (vagData[16 * k + 1] \div 16) \in 0..12

\* the primitive loop decodes the packet at its cursor in this step
PacketDecoded ==
    /\ tmdPc = "primitives"
    /\ primWalk.kind = "Next"
    /\ primWalk'.kind = "Next"

\* C27: in the primitive loop of an object every packet is read at an offset
\* strictly greater than the one before it, the cursor advancing by 4 times
\* the packet's first byte, so that no packet is decoded twice; and a packet
\* whose fields would reach past the buffer is rejected or ends the list.
C27_PacketCursorAdvances ==
    [][/\ PacketDecoded =>
             /\ primWalk'.prim_pos
                   = primWalk.prim_pos + (4 * tmdData[primWalk.prim_pos + 1])
             /\ primWalk'.prim_pos > primWalk.prim_pos
             /\ Len(primWalk'.items) = Len(primWalk.items) + 1
       /\ (tmdPc = "primitives" /\ primWalk.kind = "Next")
             => primWalk'.kind \in {"Next", "Ok", "ParseError"}]_vars

C29_AssetsInsideRegion ==
    /\ \A i \in 1..Len(assets) :
          /\ assets[i].offset + assets[i].size <= Len(scanData)
          /\ assets[i].size >= min_size
          /\ Extract(scanData, assets[i]).some
    /\ scanPc = "extracted" =>
          /\ scanExtract.some
          /\ \E i \in 1..Len(assets) :
                /\ Len(scanExtract.bytes) = assets[i].size
                /\ \A k \in 1..assets[i].size :
                      scanExtract.bytes[k] = scanData[assets[i].offset + k]

\* an asset was extracted from a region that ends inside a texture
C29_Witness ==
    /\ scanPc = "extracted"
    /\ scanData \in CutRegions
    /\ Len(scanExtract.bytes) >= DEFAULT_MIN_SIZE

\* a scan over a cut texture alone has returned without an asset
C29_WitnessCut ==
    /\ scanPc = "done"
    /\ scanData = SubSeq(SmallTim, 1, 21)
    /\ min_size = 0
    /\ assets = <<>>

====
